---- MODULE Spec2Model ----
(***************************************************************************)
(* skycache: the snapshot / change-detection / incremental-cache engine.   *)
(*                                                                         *)
(* The file system is a map from paths to (content, st_mtime); an md5      *)
(* digest is an injective image of the content.  A Resource is a registry  *)
(* key -> rule, a Snapshot a table SnapshotTableKey -> ManagedFile with    *)
(* lazily populated hash / mtime, the sqlite database two relations        *)
(* (recent, history) and the cache directory a map (tag, path) -> bytes.   *)
(*                                                                         *)
(* Python's None is the empty tuple << >> and a set value v is <<v>>;      *)
(* strings are strings ('' is ""), np.nan is NaN.                          *)
(***************************************************************************)
EXTENDS Integers, Sequences, FiniteSets, TLC

\* ---------------------------------------------------------------- bounds
MaxClock == 3     \* st_mtime values 1..MaxClock; every write takes a new one
MaxRuns == 2      \* cache runs per behaviour, and dates a tag can carry
MaxCalls == 1     \* reading operations (comparisons, searches) per behaviour

Paths == {"a", "b"}
Keys == {"k1", "k2"}
Contents == {"v1", "v2"}
Dates == 1..MaxRuns
Uids == {"x", "y"}

\* np.nan: what an unset mtime / time becomes in a hash-table row; sqlite
\* stores it as NULL, which compares equal to nothing.
NaN == -1

None == << >>
Some(v) == <<v>>

VARIABLES
    content,        \* path -> the file's bytes
    st_mtime,       \* path -> the file's modification time
    clock,          \* the latest modification time handed out
    resource,       \* Resource.table: key -> rule
    table,          \* Snapshot.table: SnapshotTableKey -> ManagedFile
    table_prev,     \* the table get_updates compares the Snapshot's table with
    historyExists,  \* the table history_<name> exists in the database
    history,        \* its rows
    recentExists,   \* the table <name> exists in the database
    recent,         \* its rows
    cache,          \* cache_root_dir: <<tag, path>> -> copied bytes
    incremented,    \* the <<tag, path>> that cache_increments runs copied
    calls,          \* the number of reading operations made so far
    removed,        \* the managed paths whose file was deleted
    runs,           \* cache runs started so far
    sinceRun,       \* path -> "clean" or "modified" since the last cache run
    last            \* what the last operation was, got and returned

vars == <<calls, removed, content, st_mtime, clock, resource, table, table_prev, historyExists, history,
          recentExists, recent, cache, incremented, runs, sinceRun, last>>

\* ------------------------------------------------------------ utils.py
\* hashlib.md5(data).hexdigest(): one digest per content, no collisions.
hash_md5(c) == "md5_" \o c

\* get_unique_name(): '<date>-<random name>-<uuid part>'.
get_unique_name(date, uid) == ToString(date) \o "-" \o uid

Tags == { get_unique_name(d, u) : d \in Dates, u \in Uids }

\* timestamp_from_unique_name(tag): the date parsed from tag.split('-')[0].
timestamp_from_unique_name(tag) ==
    CHOOSE d \in Dates : \E u \in Uids : tag = get_unique_name(d, u)

\* ---------------------------------------------------------- managed.py
ManagedFile(path, key, prefix, group, hash, mtime) ==
    [path |-> path, key |-> key, prefix |-> prefix, group |-> group,
     hash |-> hash, mtime |-> mtime]

get_hash(mf) == hash_md5(content[mf.path])

get_mtime(mf) == st_mtime[mf.path]

\* ManagedFile.copy(): a new object with the same field values.
copy(mf) ==
    ManagedFile(mf.path, mf.key, mf.prefix, mf.group, mf.hash, mf.mtime)

update(mf, update_hash, update_mtime) ==
    [mf EXCEPT !.hash = IF update_hash THEN Some(get_hash(mf)) ELSE @,
               !.mtime = IF update_mtime THEN Some(get_mtime(mf)) ELSE @]

\* A defer_hash that takes the hash again whether it is set or not.
defer_hash_always(mf) == update(mf, TRUE, FALSE)

defer_hash(mf) == IF mf.hash = None THEN update(mf, TRUE, FALSE) ELSE mf

defer_mtime(mf) == IF mf.mtime = None THEN update(mf, FALSE, TRUE) ELSE mf

defer_update(mf) == defer_mtime(defer_hash(mf))

\* --------------------------------------------------------- snapshot.py
OrEmpty(o) == IF o = None THEN "" ELSE o[1]

SnapshotTableKey(key, prefix, path) ==
    [key |-> OrEmpty(key), prefix |-> OrEmpty(prefix), path |-> path]

\* Snapshot.__init__: the table of the given files, fingerprints as given
\* (init_hash = init_mtime = False).
SnapshotInit(files) ==
    [ s \in { SnapshotTableKey(mf.key, mf.prefix, mf.path) : mf \in files } |->
        CHOOSE mf \in files : SnapshotTableKey(mf.key, mf.prefix, mf.path) = s ]

update_table(t, update_hash, update_mtime) ==
    IF update_hash \/ update_mtime
    THEN [ s \in DOMAIN t |-> update(t[s], update_hash, update_mtime) ]
    ELSE t

path_list(t) == { t[s].path : s \in DOMAIN t }

_parse_tag_and_timestamp(tag, timestamp) ==
    IF tag = None
    THEN IF timestamp = None THEN <<"", NaN>> ELSE <<"", timestamp[1]>>
    ELSE IF timestamp = None
         THEN <<tag[1], timestamp_from_unique_name(tag[1])>>
         ELSE <<tag[1], timestamp[1]>>

\* One row of as_hash_table for one ManagedFile.
HashTableRow(mf, tag, time, refer_self) ==
    [path |-> mf.path,
     key |-> OrEmpty(mf.key),
     tag |-> tag,
     refer |-> IF refer_self THEN tag ELSE "",
     group |-> OrEmpty(mf.group),
     prefix |-> OrEmpty(mf.prefix),
     hash |-> IF mf.hash = None THEN "" ELSE mf.hash[1],
     time |-> time,
     mtime |-> IF mf.mtime = None THEN NaN ELSE mf.mtime[1]]

\* Snapshot.as_hash_table of a table whose update flags were applied.
as_hash_table(t, tag, timestamp, refer_self) ==
    LET tt == _parse_tag_and_timestamp(tag, timestamp)
    IN  { HashTableRow(t[s], tt[1], tt[2], refer_self) : s \in DOMAIN t }

\* --------------------------------------------------------- database.py
\* SQL '=' on a REAL column: a NULL (a stored NaN) equals nothing.
SqlEq(x, y) == x # NaN /\ y # NaN /\ x = y

\* cond with "both" reduced to the comparison of the hashes.
cond_both_by_hash(aware, H, C) ==
    /\ H.path = C.path
    /\ H.key = C.key
    /\ CASE aware = "hash" -> H.hash = C.hash
         [] aware = "mtime" -> SqlEq(H.mtime, C.mtime)
         [] aware = "both" -> H.hash = C.hash

\* The join condition search_history builds from aware.
cond(aware, H, C) ==
    /\ H.path = C.path
    /\ H.key = C.key
    /\ CASE aware = "hash" -> H.hash = C.hash
         [] aware = "mtime" -> SqlEq(H.mtime, C.mtime)
         [] aware = "both" -> H.hash = C.hash /\ SqlEq(H.mtime, C.mtime)

\* The rows the inner join and the join on cond produce: history rows of a
\* current (path, key) that meet cond with a current row.
JoinedRows(hist, df, aware) ==
    { h \in hist :
        /\ \E b \in df : h.path = b.path /\ h.key = b.key
        /\ \E c \in df : cond(aware, h, c) }

\* rn = 1 of an ORDER BY H.time ascending: the earliest row of the path.
FirstOfPartition_ascending(rows, p) ==
    { h \in rows : h.path = p /\ \A g \in rows : g.path = p => h.time <= g.time }

\* rn = 1 of ROW_NUMBER() OVER (PARTITION BY H.path ORDER BY H.time DESC):
\* the candidates for one path; SQL leaves the order among equal times open.
FirstOfPartition(rows, p) ==
    { h \in rows : h.path = p /\ \A g \in rows : g.path = p => g.time <= h.time }

\* search_history: the set of results the query can return.
search_history(hist, df, mode, aware) ==
    LET T == JoinedRows(hist, df, aware)
        P == { h.path : h \in T }
    IN  IF mode = "all"
        THEN { T }
        ELSE { { f[p] : p \in P } :
                 f \in { g \in [P -> T] : \A p \in P : g[p] \in FirstOfPartition(T, p) } }

\* The unique key of the recent table, UNIQUE(path, key), on the history.
HistoryKey_path_key(r) == <<r.path, r.key>>

\* UNIQUE(path, key, tag) of history_<name>.
HistoryKey(r) == <<r.path, r.key, r.tag>>

\* INSERT OR REPLACE of data under UNIQUE(path, key, tag): of the rows of
\* data that share a key the one inserted last stays; the order of data is
\* that of the query result, so every such row may be the last.
insert_or_replace_into_history(hist, data) ==
    { { h \in hist : \A r \in data : HistoryKey(h) # HistoryKey(r) } \cup kept :
        kept \in { S \in SUBSET data :
                     \A r \in data :
                        Cardinality({ q \in S : HistoryKey(q) = HistoryKey(r) }) = 1 } }

\* ------------------------------------------------- snapshot.py, cache runs
SlotOfRow(r) == [key |-> r.key, prefix |-> r.prefix, path |-> r.path]

\* A merge that takes the tag of the history row for refer_history.
MergeLeft_tag(df_current, df_history) ==
    UNION { LET m == { h \in df_history :
                         h.path = c.path /\ h.key = c.key /\ h.prefix = c.prefix }
            IN  IF m = {}
                THEN { [row |-> c, refer_history |-> None] }
                ELSE { [row |-> c, refer_history |-> Some(h.tag)] : h \in m }
          : c \in df_current }

\* pd.merge(df_current, df_refer, how="left", on=["path", "key", "prefix"]).
MergeLeft(df_current, df_history) ==
    UNION { LET m == { h \in df_history :
                         h.path = c.path /\ h.key = c.key /\ h.prefix = c.prefix }
            IN  IF m = {}
                THEN { [row |-> c, refer_history |-> None] }
                ELSE { [row |-> c, refer_history |-> Some(h.refer)] : h \in m }
          : c \in df_current }

\* df.loc[~idx, 'refer'] = df.loc[~idx, 'refer_history']
Repointed(m) ==
    [m.row EXCEPT !.refer = IF m.refer_history = None THEN @ ELSE m.refer_history[1]]

\* calc_incremental_difference whose row set holds the changed rows only.
calc_incremental_difference_changed_only(t, tag, timestamp, df_history) ==
    LET df_current == as_hash_table(t, Some(tag), timestamp, TRUE)
        merged == MergeLeft(df_current, df_history)
        changed == { Repointed(m) : m \in { x \in merged : x.refer_history = None } }
    IN  [df |-> changed, changed |-> changed]

\* calc_incremental_difference(..., return_index=True) on a table whose
\* update was applied, for one result df_history of search_history:
\* df is the full row set, changed the rows idx marks (refer_history is null).
calc_incremental_difference(t, tag, timestamp, df_history) ==
    LET df_current == as_hash_table(t, Some(tag), timestamp, TRUE)
        merged == MergeLeft(df_current, df_history)
    IN  [df |-> { Repointed(m) : m \in merged },
         changed |-> { Repointed(m) : m \in { x \in merged : x.refer_history = None } }]

\* Snapshot._copy(dest_dir = cache_root_dir / tag, path_list).
_copy(c, tag, paths) ==
    [ tp \in DOMAIN c |->
        IF tp[1] = tag /\ tp[2] \in paths THEN Some(content[tp[2]]) ELSE c[tp] ]

\* ------------------------------------------------- directories, managed.py
\* The strings of the model, keys and path segments, in the order Python
\* gives strings.
StrOrder ==
    <<"..", ".ipynb_checkpoints", "/", "__pycache__", "a", "b", "b.txt", "c.txt", "d",
      "d/a", "e.txt", "f.txt", "k1", "k2", "o", "tmp", "zz">>

StrRank ==
    [ x \in { StrOrder[i] : i \in 1..Len(StrOrder) } |->
        CHOOSE i \in 1..Len(StrOrder) : StrOrder[i] = x ]

StrIndex(x) == StrRank[x]

StrLess(x, y) == StrIndex(x) < StrIndex(y)

\* sorted(S) of a set S of strings.
SortedStrings(S) ==
    CHOOSE seq \in [1..Cardinality(S) -> S] :
        \A i, j \in 1..Cardinality(S) : i < j => StrLess(seq[i], seq[j])

\* The directory tree next to the files of Paths: the directories d and
\* d/a and the files below them.
Dirs == {"d", "d/a"}

TreeFiles == {"d/a/b.txt", "d/a/__pycache__/c.txt", "d/e.txt", "d/tmp/f.txt"}

\* Path.parts.
parts(path) ==
    CASE path = "d/a/b.txt" -> <<"d", "a", "b.txt">>
      [] path = "d/a/__pycache__/c.txt" -> <<"d", "a", "__pycache__", "c.txt">>
      [] path = "d/e.txt" -> <<"d", "e.txt">>
      [] path = "d/tmp/f.txt" -> <<"d", "tmp", "f.txt">>
      [] path = "d/a" -> <<"d", "a">>
      [] path = "../a" -> <<"..", "a">>
      [] path = "/o/a" -> <<"/", "o", "a">>
      [] OTHER -> <<path>>

\* Path.__lt__: the parts compared as lists of strings.
PathLess(p, q) ==
    LET x == parts(p)
        y == parts(q)
    IN  \/ \E i \in 1..Len(x) :
              /\ i <= Len(y)
              /\ \A j \in 1..(i - 1) : x[j] = y[j]
              /\ StrLess(x[i], y[i])
        \/ /\ Len(x) < Len(y)
           /\ \A j \in 1..Len(x) : x[j] = y[j]

\* sorted(S) of a set S of paths.
SortedPaths(S) ==
    CHOOSE seq \in [1..Cardinality(S) -> S] :
        \A i, j \in 1..Cardinality(S) : i < j => PathLess(seq[i], seq[j])

is_dir(path) == path \in Dirs

\* A ManagedDirectory whose ignore set is the one the caller gave.
ManagedDirectory_ignore_as_given(path, glob, key, group, ignore) ==
    [path |-> path, glob |-> glob, key |-> key, group |-> group,
     ignore |-> IF ignore = None THEN {} ELSE ignore[1]]

\* ManagedDirectory.__init__ of a path that is a directory: the ignore set
\* is the two built-in names and what the caller gave.
ManagedDirectory(path, glob, key, group, ignore) ==
    [path |-> path, glob |-> glob, key |-> key, group |-> group,
     ignore |-> {"__pycache__", ".ipynb_checkpoints"}
                  \cup (IF ignore = None THEN {} ELSE ignore[1])]

\* Path.glob(pattern) for the patterns '**/*' (all that is below the
\* directory) and '*' (what is in it).
glob(path, pattern) ==
    { p \in Dirs \cup TreeFiles :
        /\ Len(parts(path)) < Len(parts(p))
        /\ \A j \in 1..Len(parts(path)) : parts(p)[j] = parts(path)[j]
        /\ pattern = "*" => Len(parts(p)) = Len(parts(path)) + 1 }

\* utils.ignore_path(ps, rule): the paths no part of which is in rule.
ignore_path(ps, rule) ==
    LET keep(p) == rule \cap { parts(p)[j] : j \in 1..Len(parts(p)) } = {}
    IN  SelectSeq(ps, keep)

\* ManagedDirectory.files(): the files the pattern gives, sorted, but for
\* the ignored ones, as ManagedFile with the key of the rule and the
\* directory for prefix.
directory_files(md) ==
    LET ps == SortedPaths({ p \in glob(md.path, md.glob) : p \in TreeFiles })
        kept == ignore_path(ps, md.ignore)
    IN  [ i \in 1..Len(kept) |->
            ManagedFile(kept[i], md.key, Some(md.path), None, None, None) ]

\* ---------------------------------------------------------- context.py
IsManagedDirectory(v) == "glob" \in DOMAIN v

\* A sorting list that orders the rules by their paths.
list_by_path(res) ==
    LET byPath(k, l) == PathLess(res[k].path, res[l].path)
                          \/ (res[k].path = res[l].path /\ StrLess(k, l))
        keys == CHOOSE seq \in [1..Cardinality(DOMAIN res) -> DOMAIN res] :
                    \A i, j \in 1..Cardinality(DOMAIN res) :
                        i < j => byPath(seq[i], seq[j])
    IN  [ i \in 1..Len(keys) |-> res[keys[i]] ]

\* Resource.list(sort_by_name=True): the rules in the order of their keys.
list(res) ==
    LET keys == SortedStrings(DOMAIN res)
    IN  [ i \in 1..Len(keys) |-> res[keys[i]] ]

RECURSIVE extend_each(_)
extend_each(rules) ==
    IF rules = << >>
    THEN << >>
    ELSE (IF IsManagedDirectory(Head(rules))
          THEN directory_files(Head(rules))
          ELSE <<copy(Head(rules))>>) \o extend_each(Tail(rules))

\* Resource.files(sort_by_name=True): rule after rule of list, a copy of a
\* file rule and the files of a directory rule.
files(res) == extend_each(list(res))

\* Resource.snapshot(): Snapshot(name, files(sort_by_name=True)).
snapshot(res) ==
    LET fs == files(res)
    IN  SnapshotInit({ fs[i] : i \in 1..Len(fs) })

\* The registries Resource.add can build over Keys and Paths: every rule
\* under its own key, fingerprints unset.
Registries ==
    { [ k \in DOMAIN f |-> ManagedFile(f[k], Some(k), None, None, None, None) ] :
        f \in { [k \in Keys |-> "a"],
                 [k \in Keys |-> IF k = "k1" THEN "a" ELSE "b"] } }

\* Snapshot.managed_files: the slots in the order of the table, which is
\* that of Resource.files(sort_by_name=True): by the key of the rule, the
\* files of one directory rule by their paths.
SlotLess(s, q) ==
    StrLess(s.key, q.key) \/ (s.key = q.key /\ PathLess(s.path, q.path))

\* The slots S of a table in that order.
SlotsInOrder(S) ==
    CHOOSE seq \in [1..Cardinality(S) -> S] :
        \A i, j \in 1..Cardinality(S) : i < j => SlotLess(seq[i], seq[j])

managed_files(t) == SlotsInOrder(DOMAIN t)

\* Of a list of slots those a loop over it reaches before it comes to one
\* whose file is deleted, where opening the file raises FileNotFoundError.
ReachedBeforeMissing(t, slots) ==
    LET missing == { i \in 1..Len(slots) : t[slots[i]].path \in removed }
    IN  { slots[i] : i \in { j \in 1..Len(slots) : \A m \in missing : j < m } }

\* update_table, left by the FileNotFoundError of a deleted file.
update_table_until_missing(t, update_hash, update_mtime) ==
    LET reached == ReachedBeforeMissing(t, managed_files(t))
    IN  [ s \in DOMAIN t |->
            IF s \in reached THEN update(t[s], update_hash, update_mtime) ELSE t[s] ]

\* ------------------------------------------------------------ the engine
\* What an operation leaves in last.
Ran(op, ok, tag, mode, aware, upd, changed, copied, df) ==
    [op |-> op, ok |-> ok, tag |-> tag, mode |-> mode, aware |-> aware,
     update |-> upd, changed |-> changed, copied |-> copied, df |-> df,
     histBefore |-> history, sinceBefore |-> sinceRun,
     prev |-> IF {"ok", "update", "tag"} \subseteq DOMAIN last
              THEN [op |-> last.op, ok |-> last.ok, update |-> last.update,
                    tag |-> last.tag]
              ELSE [op |-> last.op, ok |-> TRUE, update |-> FALSE, tag |-> ""]]

\* What an operation that is no cache run leaves in last.
Idle ==
    [op |-> "", ok |-> TRUE, tag |-> "", mode |-> "", aware |-> "",
     update |-> FALSE, changed |-> {}, copied |-> {}, df |-> {},
     histBefore |-> {}, sinceBefore |-> [p \in Paths |-> "clean"],
     prev |-> [op |-> "", ok |-> TRUE, update |-> FALSE, tag |-> ""]]

Init ==
    /\ calls = 0
    /\ removed = {}
    /\ content = [p \in Paths |-> "v1"]
    /\ st_mtime = [p \in Paths |-> 1]
    /\ clock = 1
    /\ resource \in Registries
    /\ table = snapshot(resource)
    /\ table_prev = << >>
    /\ historyExists = FALSE
    /\ history = {}
    /\ recentExists = FALSE
    /\ recent = {}
    /\ cache = [tp \in Tags \X Paths |-> None]
    /\ incremented = {}
    /\ runs = 0
    /\ sinceRun = [p \in Paths |-> "clean"]
    /\ last = Idle

\* The environment writes c to the managed file p; the write takes a new
\* st_mtime.  sinceRun records whether a write changed the bytes at some
\* point since the last run ("modified").
WriteFile(p, c) ==
    /\ clock < MaxClock
    /\ p \in path_list(table)
    /\ clock' = clock + 1
    /\ content' = [content EXCEPT ![p] = c]
    /\ st_mtime' = [st_mtime EXCEPT ![p] = clock + 1]
    /\ sinceRun' = [sinceRun EXCEPT ![p] =
                      IF c # content[p] THEN "modified" ELSE @]
    /\ removed' = removed \ {p}
    /\ last' = Idle
    /\ UNCHANGED <<calls, table_prev, incremented, resource, table, historyExists, history,
                   recentExists, recent, cache, runs>>

\* Resource.snapshot(): a new Snapshot of the registry replaces the old one.
NewSnapshot ==
    /\ table' = snapshot(resource)
    /\ last' = Idle
    /\ UNCHANGED <<calls, removed, table_prev, incremented, content, st_mtime, clock, resource, historyExists, history,
                   recentExists, recent, cache, runs, sinceRun>>

\* Snapshot.read_history_hash_table: create_table_history if the table is
\* missing, then a read (on an existing table it changes nothing).
ReadHistoryHashTable ==
    /\ ~historyExists
    /\ historyExists' = TRUE
    /\ last' = Idle
    /\ UNCHANGED <<calls, removed, table_prev, incremented, content, st_mtime, clock, resource, table, history,
                   recentExists, recent, cache, runs, sinceRun>>

\* An enforce_cache that expands the Resource's rules again.
EnforceCache_of_resource(tag) ==
    LET t1 == update_table(snapshot(resource), TRUE, TRUE)
        df == as_hash_table(t1, Some(tag), None, TRUE)
    IN  /\ runs < MaxRuns
        /\ runs' = runs + 1
        /\ cache' = _copy(cache, tag, path_list(t1))
        /\ table' = t1
        /\ historyExists' = TRUE
        /\ history' \in insert_or_replace_into_history(history, df)
        /\ sinceRun' = [p \in Paths |-> "clean"]
        /\ last' = Ran("enforce_cache", TRUE, tag, "", "", TRUE,
                       DOMAIN t1, path_list(t1), df)
        /\ UNCHANGED <<calls, removed, table_prev, incremented, content, st_mtime, clock, resource, recentExists, recent>>

\* An enforce_cache that copies and records file by file.
EnforceCache_file_by_file(tag) ==
    LET reached == ReachedBeforeMissing(table, managed_files(table))
        t1 == [ s \in DOMAIN table |->
                  IF s \in reached THEN update(table[s], TRUE, TRUE) ELSE table[s] ]
        df == { HashTableRow(t1[s], tag, timestamp_from_unique_name(tag), TRUE) :
                  s \in reached }
        copied == { table[s].path : s \in reached }
        failed == path_list(table) \cap removed # {}
    IN  /\ runs < MaxRuns
        /\ runs' = runs + 1
        /\ cache' = _copy(cache, tag, copied)
        /\ table' = t1
        /\ historyExists' = TRUE
        /\ history' \in insert_or_replace_into_history(history, df)
        /\ sinceRun' = IF failed THEN sinceRun ELSE [p \in Paths |-> "clean"]
        /\ last' = Ran("enforce_cache", ~failed, tag, "", "", TRUE,
                       reached, copied, df)
        /\ UNCHANGED <<calls, removed, table_prev, incremented, content, st_mtime, clock, resource, recentExists, recent>>

\* An enforce_cache that looks at the diff state: it copies the files of the
\* slots no history row matches on (hash, mtime), and records every slot.
EnforceCache_unmatched_only(tag) ==
    LET t1 == update_table(table, TRUE, TRUE)
        df == as_hash_table(t1, Some(tag), None, TRUE)
        unmatched == { r.path : r \in { c \in df : \A h \in history : ~cond("both", h, c) } }
    IN  /\ runs < MaxRuns
        /\ runs' = runs + 1
        /\ path_list(table) \cap removed = {}
        /\ cache' = _copy(cache, tag, unmatched)
        /\ table' = t1
        /\ historyExists' = TRUE
        /\ history' \in insert_or_replace_into_history(history, df)
        /\ sinceRun' = [p \in Paths |-> "clean"]
        /\ last' = Ran("enforce_cache", TRUE, tag, "", "", TRUE,
                       DOMAIN table, unmatched, df)
        /\ UNCHANGED <<calls, removed, table_prev, incremented, content, st_mtime, clock, resource, recentExists, recent>>

\* Snapshot.enforce_cache(db_path, cache_root_dir, tag): copy every managed
\* path, refresh the fingerprints, create the history table if missing and
\* upsert one row per slot with refer = tag.  The copy of a deleted file
\* raises: the files copied before it stay, nothing else is done.
EnforceCache(tag) ==
    LET t1 == update_table(table, TRUE, TRUE)
        df == as_hash_table(t1, Some(tag), None, TRUE)
        copied == { table[s].path : s \in ReachedBeforeMissing(table, managed_files(table)) }
    IN  /\ runs < MaxRuns
        /\ runs' = runs + 1
        /\ UNCHANGED <<calls, removed, table_prev, incremented, content, st_mtime, clock, resource, recentExists, recent>>
        /\ IF path_list(table) \cap removed # {}
           THEN /\ cache' = _copy(cache, tag, copied)
                /\ last' = Ran("enforce_cache", FALSE, tag, "", "", TRUE, {}, copied, {})
                /\ UNCHANGED <<table, historyExists, history, sinceRun>>
           ELSE /\ cache' = _copy(cache, tag, path_list(table))
                /\ table' = t1
                /\ historyExists' = TRUE
                /\ history' \in insert_or_replace_into_history(history, df)
                /\ sinceRun' = [p \in Paths |-> "clean"]
                /\ last' = Ran("enforce_cache", TRUE, tag, "", "", TRUE,
                               DOMAIN table, path_list(table), df)

\* Snapshot.cache_increments(db_path, cache_root_dir, tag, mode, aware,
\* update).  search_history reads history_<name> without creating it: on a
\* database without the table the query raises, after the update.  With an
\* empty changed-set the run returns before any copy or write.  The update
\* and the copy raise at a deleted file: what was updated or copied before
\* it stays, and the history is not written.
CacheIncrements(tag, mode, aware, upd) ==
    LET updateFails == upd /\ path_list(table) \cap removed # {}
        t1 == IF ~upd THEN table
              ELSE IF updateFails THEN update_table_until_missing(table, TRUE, TRUE)
              ELSE update_table(table, TRUE, TRUE)
        df_search == as_hash_table(t1, None, None, FALSE)
    IN  /\ runs < MaxRuns
        /\ runs' = runs + 1
        /\ table' = t1
        /\ UNCHANGED <<calls, removed, table_prev, content, st_mtime, clock, resource, historyExists,
                       recentExists, recent>>
        /\ IF updateFails \/ ~historyExists
           THEN /\ last' = Ran("cache_increments", FALSE, tag, mode, aware, upd,
                               {}, {}, {})
                /\ UNCHANGED <<history, cache, incremented, sinceRun>>
           ELSE \E df_history \in search_history(history, df_search, mode, aware) :
                  LET inc == calc_incremental_difference(t1, tag, None, df_history)
                      changed == { SlotOfRow(r) : r \in inc.changed }
                      paths == { r.path : r \in inc.changed }
                      copied == { t1[s].path :
                                    s \in ReachedBeforeMissing(t1, SlotsInOrder(changed)) }
                  IN  IF inc.changed = {}
                      THEN /\ sinceRun' = [p \in Paths |-> "clean"]
                           /\ UNCHANGED <<history, cache, incremented>>
                           /\ last' = Ran("cache_increments", TRUE, tag, mode,
                                          aware, upd, {}, {}, inc.df)
                      ELSE IF paths \cap removed # {}
                      THEN /\ cache' = _copy(cache, tag, copied)
                           /\ incremented' = incremented \cup ({tag} \X copied)
                           /\ UNCHANGED <<history, sinceRun>>
                           /\ last' = Ran("cache_increments", FALSE, tag, mode,
                                          aware, upd, changed, copied, inc.df)
                      ELSE /\ sinceRun' = [p \in Paths |-> "clean"]
                           /\ cache' = _copy(cache, tag, paths)
                           /\ incremented' = incremented \cup ({tag} \X paths)
                           /\ history' \in
                                insert_or_replace_into_history(history, inc.df)
                           /\ last' = Ran("cache_increments", TRUE, tag, mode,
                                          aware, upd, changed, paths, inc.df)

\* The tags a run can be given: the tag supplier's next name (its date
\* follows the dates handed out so far), or the name before it again.
NextTags == { get_unique_name(d, "x") : d \in { runs, runs + 1 } \cap Dates }

Next ==
    \/ \E p \in Paths, c \in Contents : WriteFile(p, c)
    \/ NewSnapshot
    \/ ReadHistoryHashTable
    \/ \E tag \in NextTags : EnforceCache(tag)
    \/ \E tag \in NextTags, mode \in {"recent", "all"},
          aware \in {"hash", "mtime", "both"}, upd \in BOOLEAN :
            CacheIncrements(tag, mode, aware, upd)

Spec == Init /\ [][Next]_vars

\* ---------------------------------------------------- the engine's claims
IncrementalRun == last.op = "cache_increments" /\ last.ok

CacheRun == last.op \in {"cache_increments", "enforce_cache"} /\ last.ok

\* The tag of the last run was carried by no history row before the run.
FreshTag == \A h \in last.histBefore : h.tag # last.tag

RowsOf(rel, s) == { r \in rel : r.path = s.path /\ r.key = s.key }

\* C1: two cache_increments runs in succession, the second under a fresh
\* tag, no file written in between (here even with the fingerprints
\* refreshed by both runs): the second run's changed-set is empty and it
\* leaves the number of history rows as it was.
C1_IncrementalIdempotence ==
    ( /\ IncrementalRun /\ last.update /\ FreshTag
      /\ last.prev.op = "cache_increments" /\ last.prev.ok /\ last.prev.update )
    => /\ last.changed = {}
       /\ Cardinality(history) = Cardinality(last.histBefore)

\* The slot s was cached (copied) by a cache_increments run under the tag of
\* the history row h, its file was then modified and is now back at the bytes
\* cached under h.tag, and the last run, a cache_increments with the default
\* mode and aware and refreshed fingerprints, cached it again under a fresh
\* tag.
RevertedAndCachedAgain(s, h) ==
    /\ IncrementalRun /\ FreshTag
    /\ last.mode = "recent" /\ last.aware = "both" /\ last.update
    /\ h \in RowsOf(last.histBefore, s)
    /\ h.refer = h.tag
    /\ <<h.tag, s.path>> \in incremented
    /\ last.sinceBefore[s.path] = "modified"
    /\ h.hash = hash_md5(content[s.path])
    /\ cache[<<h.tag, s.path>>] = Some(content[s.path])

\* C2 as stated: the row the second run writes for X has tag = T2 and
\* refer = T1, and X is not copied into the T2 directory.
C2_RevertRefersToFirstTag ==
    \A s \in DOMAIN table : \A h \in last.histBefore :
        RevertedAndCachedAgain(s, h) =>
            /\ \E r \in RowsOf(history, s) : r.tag = last.tag /\ r.refer = h.tag
            /\ s.path \notin last.copied

\* C2 as amended: under the default aware = "both" the rewritten file
\* carries a new mtime, so X is in the changed-set of the second run, is
\* copied into the T2 directory, and its T2 row has refer = T2.
C2_RevertIsCopiedAgain ==
    \A s \in DOMAIN table : \A h \in last.histBefore :
        RevertedAndCachedAgain(s, h) =>
            /\ s \in last.changed
            /\ s.path \in last.copied
            /\ cache[<<last.tag, s.path>>] = Some(content[s.path])
            /\ \E r \in RowsOf(history, s) : r.tag = last.tag /\ r.refer = last.tag
            /\ \A r \in RowsOf(history, s) : r.tag = last.tag => r.refer # h.tag

C2_Witness ==
    \E s \in DOMAIN table : \E h \in last.histBefore : RevertedAndCachedAgain(s, h)

\* C3: a managed file whose bytes at the start of a cache_increments run
\* differ from the content every history row of its (path, key) records is
\* in the changed-set of the run and is copied into the run's directory.
C3_ChangedNeverSkipped ==
    IncrementalRun =>
        \A s \in DOMAIN table :
            (\A h \in RowsOf(last.histBefore, s) : h.hash # hash_md5(content[s.path]))
            => /\ s \in last.changed
               /\ cache[<<last.tag, s.path>>] = Some(content[s.path])

\* C4: in a cache_increments run with mode = "recent" every slot whose
\* current (hash, mtime) equals those of a history row of its (path, key)
\* is outside the changed-set and its file is not copied.
C4_UnchangedExcluded ==
    (IncrementalRun /\ last.mode = "recent") =>
        \A s \in DOMAIN table :
            ( /\ table[s].hash # None /\ table[s].mtime # None
              /\ \E h \in RowsOf(last.histBefore, s) :
                    h.hash = table[s].hash[1] /\ h.mtime = table[s].mtime[1] )
            => /\ s \notin last.changed
               /\ s.path \notin last.copied

\* C5 as stated: every cache_increments run that returns leaves one row
\* with its tag for every slot, whatever the size of its changed-set.
C5_EveryRunWritesAllRows ==
    IncrementalRun =>
        \A s \in DOMAIN table :
            Cardinality({ r \in RowsOf(history, s) : r.tag = last.tag }) = 1

\* C5 as amended: a run with a non-empty changed-set leaves one row with
\* its tag for every slot, refer = tag for a changed slot and the refer of
\* a matching earlier row for an unchanged one; a run with an empty
\* changed-set writes nothing.
C5_NonEmptyRunWritesAllRows ==
    IncrementalRun =>
        IF last.changed = {}
        THEN history = last.histBefore
        ELSE \A s \in DOMAIN table :
               LET written == { r \in RowsOf(history, s) : r.tag = last.tag }
                   cur == HashTableRow(table[s], "", NaN, FALSE)
               IN  /\ Cardinality(written) = 1
                   /\ \A r \in written :
                        /\ r.hash = cur.hash /\ r.mtime = cur.mtime
                        /\ s \in last.changed => r.refer = last.tag
                        /\ s \notin last.changed =>
                             \E h \in RowsOf(last.histBefore, s) :
                                 /\ cond(last.aware, h, cur)
                                 /\ r.refer = h.refer

C5_Witness ==
    /\ IncrementalRun
    /\ last.changed # {}
    /\ \E s \in DOMAIN table : s \notin last.changed
    /\ \E s \in DOMAIN table : \E r \in RowsOf(history, s) :
          r.tag = last.tag /\ r.refer # last.tag

\* C6: after a cache run that returns, the recent relation holds exactly
\* one row per managed (path, key) of the Snapshot.
C6_RecentComplete ==
    CacheRun =>
        \A s \in DOMAIN table : Cardinality(RowsOf(recent, s)) = 1

\* ------------------------------------------------ managed.py, comparison
\* '==' on two float mtimes: np.nan equals nothing, itself included.
FloatEq(x, y) == x # NaN /\ y # NaN /\ x = y

st_size(p) == Len(content[p])

\* filecmp.cmp(f1, f2, shallow=True): equal os.stat signatures (size, mtime)
\* answer True without a read; otherwise the sizes and then the bytes decide.
filecmp_cmp(f1, f2) ==
    IF st_size(f1) = st_size(f2) /\ st_mtime[f1] = st_mtime[f2]
    THEN TRUE
    ELSE st_size(f1) = st_size(f2) /\ content[f1] = content[f2]

\* is_same_file_with whose "mtime_aware" asks for equal mtimes and hashes.
is_same_file_with_mtime_and_hash(self, other, aware) ==
    CASE aware = "mtime_only" ->
           LET a == defer_mtime(self)
               b == defer_mtime(other)
           IN  [same |-> FloatEq(a.mtime[1], b.mtime[1]), self |-> a, other |-> b]
      [] aware = "hash_only" ->
           LET a == defer_hash(self)
               b == defer_hash(other)
           IN  [same |-> a.hash = b.hash, self |-> a, other |-> b]
      [] aware \in {"mtime_aware", "both"} ->
           LET a == defer_update(self)
               b == defer_update(other)
           IN  [same |-> FloatEq(a.mtime[1], b.mtime[1]) /\ a.hash = b.hash,
                self |-> a, other |-> b]
      [] aware = "strict" ->
           [same |-> filecmp_cmp(self.path, other.path), self |-> self, other |-> other]

\* ManagedFile.is_same_file_with(other, aware) for a valid aware: the answer
\* and the two operands with the fields the comparison populated.
is_same_file_with(self, other, aware) ==
    CASE aware = "mtime_only" ->
           LET a == defer_mtime(self)
               b == defer_mtime(other)
           IN  [same |-> FloatEq(a.mtime[1], b.mtime[1]), self |-> a, other |-> b]
      [] aware = "hash_only" ->
           LET a == defer_hash(self)
               b == defer_hash(other)
           IN  [same |-> a.hash = b.hash, self |-> a, other |-> b]
      [] aware = "mtime_aware" ->
           LET a == defer_mtime(self)
               b == defer_mtime(other)
           IN  IF FloatEq(a.mtime[1], b.mtime[1])
               THEN [same |-> TRUE, self |-> a, other |-> b]
               ELSE LET a2 == defer_hash(a)
                        b2 == defer_hash(b)
                    IN  [same |-> a2.hash = b2.hash, self |-> a2, other |-> b2]
      [] aware = "both" ->
           LET a == defer_update(self)
               b == defer_update(other)
           IN  [same |-> FloatEq(a.mtime[1], b.mtime[1]) /\ a.hash = b.hash,
                self |-> a, other |-> b]
      [] aware = "strict" ->
           [same |-> filecmp_cmp(self.path, other.path), self |-> self, other |-> other]

aware_set == {"mtime_only", "hash_only", "mtime_aware", "both", "strict"}

\* ----------------------------------------------- snapshot.py, get_updates
\* get_updates that reports every slot of table_cur.
get_updates_every_slot(t_cur, t_prev, aware) ==
    [updates |-> [ s \in DOMAIN t_cur |-> copy(t_cur[s]) ], table_cur |-> t_cur]

\* get_updates(table_cur, table_prev, aware) for a valid aware: the returned
\* dict and table_cur with the fields the comparisons populated.  A slot of
\* both tables is compared with table_cur[key], its own entry.
get_updates(t_cur, t_prev, aware) ==
    LET after(s) == IF s \in DOMAIN t_prev
                    THEN is_same_file_with(t_cur[s], t_cur[s], aware)
                    ELSE [same |-> FALSE, self |-> t_cur[s], other |-> t_cur[s]]
        updated == { s \in DOMAIN t_cur : ~after(s).same }
    IN  [updates |-> [ s \in updated |-> copy(after(s).self) ],
         table_cur |-> [ s \in DOMAIN t_cur |-> after(s).self ]]

null_string_to_None(v) == IF v = "" THEN None ELSE Some(v)

\* None_to_nan: the value if it is None, np.nan otherwise.
None_to_nan(v) == IF v = None THEN None ELSE Some(NaN)

\* snapshot_table_from_dataframe(df): a column value of a row is never None.
snapshot_table_from_dataframe(df) ==
    [ s \in { SlotOfRow(r) : r \in df } |->
        LET r == CHOOSE q \in df : SlotOfRow(q) = s
        IN  ManagedFile(r.path, null_string_to_None(r.key),
                        null_string_to_None(r.prefix), null_string_to_None(r.group),
                        Some(r.hash), None_to_nan(Some(r.mtime))) ]

\* read_table_recent_select: the rows whose (path, key) is that of a managed
\* file, the key as the f-string prints it.
read_table_recent_select(rel, t) ==
    { r \in rel : \E s \in DOMAIN t :
        r.path = t[s].path /\ r.key = (IF t[s].key = None THEN "None" ELSE t[s].key[1]) }

\* -------------------------------------------------- comparing two tables
\* The variables the comparisons leave alone.
untouched == <<removed, content, st_mtime, clock, resource, historyExists, history,
               recent, cache, incremented, runs, sinceRun>>

\* The fingerprints an entry can hold: unset, or those taken of the file
\* when it held "v2" and had the mtime before the present one.
HashFields == {None, Some(hash_md5("v2"))}

MtimeFields == {None, Some(MaxClock - 1)}

CompareRegistry ==
    [ k \in Keys |->
        ManagedFile(IF k = "k1" THEN "a" ELSE "b", Some(k), None, None, None, None) ]

CompareSlots == DOMAIN snapshot(CompareRegistry)

Entries(s) ==
    { ManagedFile(s.path, Some(s.key), None, None, h, m) :
        h \in HashFields, m \in MtimeFields }

\* The Snapshot tables over some of the slots.
CompareTables ==
    UNION { { t \in [D -> UNION { Entries(s) : s \in D }] :
                \A s \in D : t[s] \in Entries(s) } : D \in SUBSET CompareSlots }

InitCompare ==
    /\ calls = 0
    /\ removed = {}
    /\ content = [p \in Paths |-> IF p = "a" THEN "v1" ELSE "v2"]
    /\ st_mtime = [p \in Paths |-> MaxClock]
    /\ clock = MaxClock
    /\ resource = CompareRegistry
    /\ table \in CompareTables
    /\ table_prev \in CompareTables
    /\ historyExists = FALSE
    /\ history = {}
    /\ recentExists = FALSE
    /\ recent = {}
    /\ cache = [tp \in Tags \X Paths |-> None]
    /\ incremented = {}
    /\ runs = 0
    /\ sinceRun = [p \in Paths |-> "clean"]
    /\ last = Idle

\* What a get_updates call leaves in last: its mode and the dict it
\* returned.  The tables it was given are table and table_prev after the
\* call, but for the unset fields of table the comparisons populated.
Updated(aware, updates) ==
    [op |-> "get_updates", aware |-> aware, updates |-> updates]

\* get_updates(table, table_prev, aware).
GetUpdates(aware) ==
    LET r == get_updates(table, table_prev, aware)
    IN  /\ calls < MaxCalls
        /\ calls' = calls + 1
        /\ table' = r.table_cur
        /\ last' = Updated(aware, r.updates)
        /\ UNCHANGED <<table_prev, recentExists>>
        /\ UNCHANGED untouched

\* Snapshot.get_updates(df_prev = a dataframe as as_hash_table gives it,
\* here that of the previous table).
SnapshotGetUpdatesDf(aware) ==
    LET t_prev == snapshot_table_from_dataframe(
                      as_hash_table(table_prev, None, None, FALSE))
        r == get_updates(table, t_prev, aware)
    IN  /\ calls < MaxCalls
        /\ calls' = calls + 1
        /\ table' = r.table_cur
        /\ table_prev' = t_prev
        /\ last' = Updated(aware, r.updates)
        /\ UNCHANGED recentExists
        /\ UNCHANGED untouched

\* Snapshot.get_updates(db_path): read_recent_hash_table creates the table
\* if it is missing and reads the rows of the managed files.
SnapshotGetUpdatesDb(aware) ==
    LET t_prev == snapshot_table_from_dataframe(read_table_recent_select(recent, table))
        r == get_updates(table, t_prev, aware)
    IN  /\ calls < MaxCalls
        /\ calls' = calls + 1
        /\ recentExists' = TRUE
        /\ table' = r.table_cur
        /\ table_prev' = t_prev
        /\ last' = Updated(aware, r.updates)
        /\ UNCHANGED untouched

\* table[s].is_same_file_with(table_prev[q], aware).
IsSameFileWith(s, q, aware) ==
    LET r == is_same_file_with(table[s], table_prev[q], aware)
    IN  /\ calls < MaxCalls
        /\ calls' = calls + 1
        /\ table' = [table EXCEPT ![s] = r.self]
        /\ table_prev' = [table_prev EXCEPT ![q] = r.other]
        /\ last' = [op |-> "is_same_file_with", aware |-> aware,
                    self |-> table[s], other |-> table_prev[q], same |-> r.same]
        /\ UNCHANGED recentExists
        /\ UNCHANGED untouched

\* What a call that raises ValueError leaves in last; before and
\* recentBefore are the Snapshot's table and the presence of the recent
\* table as the call found them.
ValueError(of, aware) ==
    [op |-> "raised", of |-> of, raised |-> "ValueError", aware |-> aware,
     before |-> table, recentBefore |-> recentExists]

\* get_updates(table, table_prev, aware) with an aware outside aware_set.
GetUpdatesInvalid(aware) ==
    /\ calls < MaxCalls
    /\ aware \notin aware_set
    /\ calls' = calls + 1
    /\ last' = ValueError("get_updates", aware)
    /\ UNCHANGED <<table, table_prev, recentExists>>
    /\ UNCHANGED untouched

\* table[s].is_same_file_with(table_prev[q], aware) with such an aware.
IsSameFileWithInvalid(s, q, aware) ==
    /\ calls < MaxCalls
    /\ aware \notin aware_set
    /\ calls' = calls + 1
    /\ last' = ValueError("is_same_file_with", aware)
    /\ UNCHANGED <<table, table_prev, recentExists>>
    /\ UNCHANGED untouched

\* Snapshot.get_updates with both of db_path and df_prev, or with neither.
SnapshotGetUpdatesBothOrNeither(given, aware) ==
    /\ calls < MaxCalls
    /\ given \in {"both", "neither"}
    /\ calls' = calls + 1
    /\ last' = ValueError("Snapshot.get_updates " \o given, aware)
    /\ UNCHANGED <<table, table_prev, recentExists>>
    /\ UNCHANGED untouched

\* Snapshot.get_updates(db_path) or (df_prev) with an aware outside
\* aware_set: the previous table is read (from the database, after
\* read_recent_hash_table created the table if it was missing) before
\* get_updates looks at aware.
SnapshotGetUpdatesInvalid(given, aware) ==
    /\ calls < MaxCalls
    /\ given \in {"db_path", "df_prev"}
    /\ aware \notin aware_set
    /\ calls' = calls + 1
    /\ recentExists' = (recentExists \/ given = "db_path")
    /\ table_prev' = snapshot_table_from_dataframe(
                        IF given = "db_path"
                        THEN read_table_recent_select(recent, table)
                        ELSE as_hash_table(table_prev, None, None, FALSE))
    /\ last' = ValueError("Snapshot.get_updates " \o given, aware)
    /\ UNCHANGED table
    /\ UNCHANGED untouched

NextCompare ==
    \/ \E aware \in aware_set : GetUpdates(aware)
    \/ \E aware \in aware_set : SnapshotGetUpdatesDf(aware)
    \/ \E aware \in aware_set : SnapshotGetUpdatesDb(aware)
    \/ \E s \in DOMAIN table, q \in DOMAIN table_prev, aware \in aware_set :
          IsSameFileWith(s, q, aware)
    \/ GetUpdatesInvalid("bogus")
    \/ \E s \in DOMAIN table, q \in DOMAIN table_prev : IsSameFileWithInvalid(s, q, "bogus")
    \/ \E given \in {"both", "neither"}, aware \in {"both", "bogus"} :
          SnapshotGetUpdatesBothOrNeither(given, aware)
    \/ \E given \in {"db_path", "df_prev"} : SnapshotGetUpdatesInvalid(given, "bogus")

SpecCompare == InitCompare /\ [][NextCompare]_vars

\* ------------------------------------------------ the comparisons' claims
GotUpdates == last.op = "get_updates"

\* The entry of slot s in the current table is the same file as its entry
\* in the previous table under the mode of the last get_updates.  A field
\* the call populated holds what the comparison reads for an unset one.
SameAsPrevious(s) ==
    is_same_file_with(table[s], table_prev[s], last.aware).same

\* C7: get_updates returns exactly the slots of the current table that are
\* absent from the previous table or whose entry is not the same file as
\* the previous entry of the slot under the mode.
C7_UpdatesExact ==
    GotUpdates =>
        DOMAIN last.updates =
            { s \in DOMAIN table :
                s \notin DOMAIN table_prev \/ ~SameAsPrevious(s) }

\* C8: get_updates returns every slot of the current table that is absent
\* from the previous table, and no slot whose current entry is identical to
\* the previous entry under the mode.
C8_AbsentAlwaysIdenticalNever ==
    GotUpdates =>
        /\ \A s \in DOMAIN table :
              s \notin DOMAIN table_prev => s \in DOMAIN last.updates
        /\ \A s \in DOMAIN table \cap DOMAIN table_prev :
              SameAsPrevious(s) => s \notin DOMAIN last.updates

C8_Witness ==
    /\ GotUpdates
    /\ \E s \in DOMAIN table : s \notin DOMAIN table_prev /\ s \in DOMAIN last.updates
    /\ \E s \in DOMAIN table \cap DOMAIN table_prev :
          SameAsPrevious(s) /\ s \notin DOMAIN last.updates

Compared == last.op = "is_same_file_with"

\* The fingerprints a comparison sees of an entry: the field, or what the
\* file gives when the field is unset.
mtime_seen(mf) == IF mf.mtime = None THEN st_mtime[mf.path] ELSE mf.mtime[1]

hash_seen(mf) == IF mf.hash = None THEN hash_md5(content[mf.path]) ELSE mf.hash[1]

\* C10: a.is_same_file_with(b, mode), for entries whose mtime is a time, is
\* true for mtime_only iff the mtimes are equal, for hash_only iff the
\* hashes are equal, for mtime_aware iff the mtimes or the hashes are equal,
\* for both iff the mtimes and the hashes are equal.
C10_ModeSemantics ==
    ( /\ Compared
      /\ mtime_seen(last.self) # NaN
      /\ mtime_seen(last.other) # NaN )
    => LET m == mtime_seen(last.self) = mtime_seen(last.other)
           h == hash_seen(last.self) = hash_seen(last.other)
       IN  /\ last.aware = "mtime_only" => (last.same <=> m)
           /\ last.aware = "hash_only" => (last.same <=> h)
           /\ last.aware = "mtime_aware" => (last.same <=> (m \/ h))
           /\ last.aware = "both" => (last.same <=> (m /\ h))

C10_Witness ==
    /\ Compared
    /\ last.aware = "mtime_aware"
    /\ mtime_seen(last.self) # NaN
    /\ mtime_seen(last.other) # NaN
    /\ mtime_seen(last.self) # mtime_seen(last.other)
    /\ last.other.hash = None
    /\ hash_seen(last.self) = hash_seen(last.other)
    /\ last.same

\* C11: is_same_file_with in mode strict is true iff the bytes of the two
\* files are identical, whatever their sizes and modification times: two
\* files of equal size and mtime and different bytes compare as different.
C11_StrictComparesBytes ==
    (Compared /\ last.aware = "strict") =>
        (last.same <=> content[last.self.path] = content[last.other.path])

\* ------------------------------------------------ context.py, Resource.add
MaxEntries == 2   \* entries of one sequence or mapping given to add

\* The paths add is given: the files, and one path where nothing is.
AddPaths == Paths \cup {"zz"}

is_file(path) == path \in Paths \cup TreeFiles

\* What add and _add give back: the registry and the error raised, if any.
Added(res, raised) == [table |-> res, raised |-> raised]

\* Resource._add(key, path, glob = pattern, ignore = ignore), group left out.
_add(res, key, path, pattern, ignore) ==
    IF key \in DOMAIN res
    THEN Added(res, "KeyError")
    ELSE IF ~is_file(path) /\ ~is_dir(path)
         THEN Added(res, "FileNotFoundError")
         ELSE Added([ k \in DOMAIN res \cup {key} |->
                        IF k # key
                        THEN res[k]
                        ELSE IF is_file(path)
                        THEN ManagedFile(path, Some(key), None, None, None, None)
                        ELSE ManagedDirectory(path, pattern, Some(key), None, ignore) ], "")

\* inherit_args(args, key = ...): the arguments of an entry, a path with or
\* without a key of its own, over the inherited ones; the key defaults to
\* the path.
inherit_args(args, key) ==
    [path |-> args.path,
     key |-> IF args.key # None THEN args.key[1]
             ELSE IF key # None THEN key[1] ELSE args.path]

\* The loops of add: _add entry after entry, up to the first that raises.
RECURSIVE _add_each(_, _)
_add_each(res, kwargs) ==
    IF kwargs = << >>
    THEN Added(res, "")
    ELSE LET r == _add(res, Head(kwargs).key, Head(kwargs).path, "**/*", None)
         IN  IF r.raised # "" THEN r ELSE _add_each(r.table, Tail(kwargs))

\* Resource.add(path, key = key) for a single path.
add(res, path, key) ==
    _add(res, IF key # None THEN key[1] ELSE path, path, "**/*", None)

\* Resource.add(sequence of entries).
add_sequence(res, entries) ==
    _add_each(res, [ i \in 1..Len(entries) |-> inherit_args(entries[i], None) ])

\* Resource.add(mapping key -> entry), in the order of the mapping's items.
add_mapping(res, items) ==
    _add_each(res, [ i \in 1..Len(items) |->
                       inherit_args(items[i][2], Some(items[i][1])) ])

AddArgs == [path : AddPaths, key : {None, Some("k1")}]

AddSequences == UNION { [1..n -> AddArgs] : n \in 1..MaxEntries }

AddMappings ==
    { m \in UNION { [1..n -> Keys \X AddArgs] : n \in 1..MaxEntries } :
        \A i, j \in 1..Len(m) : m[i][1] = m[j][1] => i = j }

\* What an add call leaves in last: the (key, path) it was to insert in
\* turn, the error it raised and the registry it found.
AddCall(kwargs, raised) ==
    [op |-> "add", kwargs |-> kwargs, raised |-> raised, before |-> resource]

InitAdd ==
    /\ calls = 0
    /\ removed = {}
    /\ content = [p \in Paths |-> "v1"]
    /\ st_mtime = [p \in Paths |-> 1]
    /\ clock = 1
    /\ resource = << >>
    /\ table = snapshot(resource)
    /\ table_prev = << >>
    /\ historyExists = FALSE
    /\ history = {}
    /\ recentExists = FALSE
    /\ recent = {}
    /\ cache = [tp \in Tags \X Paths |-> None]
    /\ incremented = {}
    /\ runs = 0
    /\ sinceRun = [p \in Paths |-> "clean"]
    /\ last = Idle

registryOnly == <<calls, removed, content, st_mtime, clock, table, table_prev, historyExists,
                  history, recentExists, recent, cache, incremented, runs,
                  sinceRun>>

Add(path, key) ==
    LET r == add(resource, path, key)
    IN  /\ resource' = r.table
        /\ last' = AddCall(<<inherit_args([path |-> path, key |-> key], None)>>,
                           r.raised)
        /\ UNCHANGED registryOnly

AddSequence(entries) ==
    LET r == add_sequence(resource, entries)
    IN  /\ resource' = r.table
        /\ last' = AddCall([ i \in 1..Len(entries) |-> inherit_args(entries[i], None) ],
                           r.raised)
        /\ UNCHANGED registryOnly

\* last holds the mapping as well, the items in their order.
AddMapping(items) ==
    LET r == add_mapping(resource, items)
    IN  /\ resource' = r.table
        /\ last' = ("items" :> items) @@
                     AddCall([ i \in 1..Len(items) |->
                                 inherit_args(items[i][2], Some(items[i][1])) ],
                             r.raised)
        /\ UNCHANGED registryOnly

NextAdd ==
    \/ \E path \in AddPaths, key \in {None, Some("k1")} : Add(path, key)
    \/ \E entries \in AddSequences : AddSequence(entries)
    \/ \E items \in AddMappings : AddMapping(items)

SpecAdd == InitAdd /\ [][NextAdd]_vars

\* ------------------------------------------------- the registry's claims
\* C9: an add call, all of whose paths are files, that brings a key the
\* registry already holds raises the duplicate-key error and leaves the
\* registry as it was: no entry of the call is inserted.
C9_DuplicateLeavesRegistry ==
    ( /\ last.op = "add"
      /\ \A i \in 1..Len(last.kwargs) : is_file(last.kwargs[i].path)
      /\ \E i \in 1..Len(last.kwargs) : last.kwargs[i].key \in DOMAIN last.before )
    => /\ last.raised = "KeyError"
       /\ resource = last.before

\* ------------------------------------- a Resource and its Snapshot in use
\* Snapshot.update_table(update_hash, update_mtime).
UpdateTable(update_hash, update_mtime) ==
    /\ calls < MaxCalls
    /\ calls' = calls + 1
    /\ table' = update_table(table, update_hash, update_mtime)
    /\ last' = [op |-> "update_table"]
    /\ UNCHANGED <<table_prev, recentExists>>
    /\ UNCHANGED untouched

\* Snapshot.as_hash_table(update_hash, update_mtime): the rows, after the
\* update of every entry the flags ask for.
AsHashTable(update_hash, update_mtime) ==
    LET t1 == update_table(table, update_hash, update_mtime)
    IN  /\ calls < MaxCalls
        /\ calls' = calls + 1
        /\ table' = t1
        /\ last' = [op |-> "as_hash_table", df |-> as_hash_table(t1, None, None, FALSE)]
        /\ UNCHANGED <<table_prev, recentExists>>
        /\ UNCHANGED untouched

\* Snapshot.search_history(db_path, mode, aware, update_hash, update_mtime)
\* for a valid mode and aware: as_hash_table with the update flags, then
\* the query, which raises on a database without the history table.
SnapshotSearchHistory(mode, aware, update_hash, update_mtime) ==
    LET t1 == update_table(table, update_hash, update_mtime)
        df == as_hash_table(t1, None, None, FALSE)
    IN  /\ calls < MaxCalls
        /\ calls' = calls + 1
        /\ table' = t1
        /\ UNCHANGED <<table_prev, recentExists>>
        /\ UNCHANGED untouched
        /\ IF ~historyExists
           THEN last' = [op |-> "search_history", ok |-> FALSE]
           ELSE \E found \in search_history(history, df, mode, aware) :
                  last' = [op |-> "search_history", ok |-> TRUE, mode |-> mode,
                           aware |-> aware, df |-> df, found |-> found]

\* Snapshot.calc_incremental_difference(db_path, tag, mode, aware, update,
\* return_index=True) for a valid mode and aware.
CalcIncrementalDifference(tag, mode, aware, upd) ==
    LET t1 == IF upd THEN update_table(table, TRUE, TRUE) ELSE table
        df_search == as_hash_table(t1, None, None, FALSE)
    IN  /\ calls < MaxCalls
        /\ calls' = calls + 1
        /\ table' = t1
        /\ UNCHANGED <<table_prev, recentExists>>
        /\ UNCHANGED untouched
        /\ IF ~historyExists
           THEN last' = [op |-> "calc_incremental_difference", ok |-> FALSE]
           ELSE \E df_history \in search_history(history, df_search, mode, aware) :
                  LET inc == calc_incremental_difference(t1, tag, None, df_history)
                  IN  last' = [op |-> "calc_incremental_difference", ok |-> TRUE,
                               tag |-> tag, df_history |-> df_history,
                               df |-> inc.df, changed |-> inc.changed]

\* A mode or an aware search_history has no branch for: cond or
\* select_query stays unbound and its first use raises.
InvalidArguments == { <<"recent", "bogus">>, <<"bogus", "both">> }

\* What a call with such arguments leaves in last; before is the table the
\* call found.
Raised(op, mode, aware) ==
    [op |-> op, ok |-> FALSE, raised |-> "UnboundLocalError", mode |-> mode,
     aware |-> aware, before |-> table]

\* Snapshot.search_history with such arguments: as_hash_table with the
\* update flags runs first.
SnapshotSearchHistoryInvalid(mode, aware, update_hash, update_mtime) ==
    /\ calls < MaxCalls
    /\ calls' = calls + 1
    /\ table' = update_table(table, update_hash, update_mtime)
    /\ last' = Raised("search_history", mode, aware)
    /\ UNCHANGED <<table_prev, recentExists>>
    /\ UNCHANGED untouched

\* Snapshot.calc_incremental_difference with such arguments: update_table,
\* if update is set, runs first.
CalcIncrementalDifferenceInvalid(mode, aware, upd) ==
    /\ calls < MaxCalls
    /\ calls' = calls + 1
    /\ table' = IF upd THEN update_table(table, TRUE, TRUE) ELSE table
    /\ last' = Raised("calc_incremental_difference", mode, aware)
    /\ UNCHANGED <<table_prev, recentExists>>
    /\ UNCHANGED untouched

\* Snapshot.cache_increments with such arguments fails in its
\* calc_incremental_difference, before the copy and the insert.
CacheIncrementsInvalid(mode, aware, upd) ==
    /\ calls < MaxCalls
    /\ calls' = calls + 1
    /\ table' = IF upd THEN update_table(table, TRUE, TRUE) ELSE table
    /\ last' = Raised("cache_increments", mode, aware)
    /\ UNCHANGED <<table_prev, recentExists>>
    /\ UNCHANGED untouched

NextLife ==
    \/ \E path \in AddPaths : Add(path, None)
    \/ NewSnapshot
    \/ \E update_hash, update_mtime \in BOOLEAN : UpdateTable(update_hash, update_mtime)
    \/ \E update_hash, update_mtime \in BOOLEAN : AsHashTable(update_hash, update_mtime)
    \/ \E aware \in aware_set : GetUpdates(aware)
    \/ ReadHistoryHashTable
    \/ \E mode \in {"recent", "all"}, aware \in {"hash", "mtime", "both"},
          update_hash, update_mtime \in BOOLEAN :
            SnapshotSearchHistory(mode, aware, update_hash, update_mtime)
    \/ \E tag \in NextTags, mode \in {"recent", "all"},
          aware \in {"hash", "mtime", "both"}, upd \in BOOLEAN :
            CalcIncrementalDifference(tag, mode, aware, upd)
    \/ \E tag \in NextTags : EnforceCache(tag)
    \/ \E tag \in NextTags, mode \in {"recent", "all"},
          aware \in {"hash", "mtime", "both"}, upd \in BOOLEAN :
            CacheIncrements(tag, mode, aware, upd)
    \/ \E ma \in InvalidArguments, update_hash, update_mtime \in BOOLEAN :
            SnapshotSearchHistoryInvalid(ma[1], ma[2], update_hash, update_mtime)
    \/ \E ma \in InvalidArguments, upd \in BOOLEAN :
            CalcIncrementalDifferenceInvalid(ma[1], ma[2], upd)
    \/ \E ma \in InvalidArguments, upd \in BOOLEAN :
            CacheIncrementsInvalid(ma[1], ma[2], upd)

SpecLife == InitAdd /\ [][NextLife]_vars

\* --------------------------------------------- the claims of a Snapshot in use
\* C12: the slots of a Snapshot are fixed at construction: but for the step
\* that makes a new Snapshot, no step, be it an add on the Resource or an
\* operation of the Snapshot, adds or removes a slot.
C12_SlotsFixed == [][NewSnapshot \/ DOMAIN table' = DOMAIN table]_vars

C12_Witness ==
    /\ last.op \in {"cache_increments", "enforce_cache"}
    /\ DOMAIN table # {}
    /\ DOMAIN snapshot(resource) # DOMAIN table

Searched(mode) == last.op = "search_history" /\ last.ok /\ last.mode = mode

\* A history row and a current row agree on path and key and, as aware asks,
\* on the hash, the mtime or both.
Matches(h, c, aware) ==
    /\ h.path = c.path
    /\ h.key = c.key
    /\ aware \in {"hash", "both"} => h.hash = c.hash
    /\ aware \in {"mtime", "both"} => (h.mtime # NaN /\ c.mtime # NaN /\ h.mtime = c.mtime)

MatchingRows(aware) == { h \in history : \E c \in last.df : Matches(h, c, aware) }

\* C13: search_history in mode recent returns at most one row for a path,
\* and that row has the greatest run time among the matching history rows
\* of the path: of two matching rows of different times only the later.
C13_RecentIsLatestPerPath ==
    Searched("recent") =>
        /\ last.found \subseteq MatchingRows(last.aware)
        /\ \A r, q \in last.found : r.path = q.path => r = q
        /\ \A r \in last.found : \A h \in MatchingRows(last.aware) :
              h.path = r.path => h.time <= r.time

C13_Witness ==
    /\ Searched("recent")
    /\ \E r \in last.found : \E h \in MatchingRows(last.aware) :
          h.path = r.path /\ h.time < r.time

\* The fingerprints aware compares are set in the current row c.
Fingerprinted(c, aware) ==
    /\ aware \in {"hash", "both"} => c.hash # ""
    /\ aware \in {"mtime", "both"} => c.mtime # NaN

\* C14: search_history in mode all returns exactly the history rows that
\* agree with some current row on path and key and, as aware asks, on the
\* hash, the mtime or both; a current row whose compared fingerprint is
\* unset matches no history row.
C14_AllIsExactlyMatching ==
    Searched("all") =>
        last.found = { h \in history :
                         \E c \in last.df :
                            Fingerprinted(c, last.aware) /\ Matches(h, c, last.aware) }

Calculated == last.op = "calc_incremental_difference" /\ last.ok

\* The history rows search_history found for the slot of the row r.
MatchedBy(r) ==
    { h \in last.df_history :
        h.path = r.path /\ h.key = r.key /\ h.prefix = r.prefix }

\* C20 as the spec words it: a row that matched a history row gets for refer
\* the tag of that history row, an unmatched row keeps the new tag, every
\* row has the new tag, and the mask marks exactly the unmatched rows.
C20_ReferIsMatchedTag ==
    Calculated =>
        /\ \A r \in last.df :
              /\ r.tag = last.tag
              /\ MatchedBy(r) # {} => \E h \in MatchedBy(r) : r.refer = h.tag
              /\ MatchedBy(r) = {} => r.refer = last.tag
        /\ last.changed = { r \in last.df : MatchedBy(r) = {} }

\* C20: calc_incremental_difference gives a row that matched a history row
\* the refer of that history row, an unmatched row keeps the new tag for
\* refer, every row has the new tag, and the mask marks exactly the
\* unmatched rows.
C20_ReferIsMatchedRefer ==
    Calculated =>
        /\ \A r \in last.df :
              /\ r.tag = last.tag
              /\ MatchedBy(r) # {} => \E h \in MatchedBy(r) : r.refer = h.refer
              /\ MatchedBy(r) = {} => r.refer = last.tag
        /\ last.changed = { r \in last.df : MatchedBy(r) = {} }

C20_Witness ==
    /\ Calculated
    /\ \E r \in last.df : \E h \in MatchedBy(r) : h.refer # h.tag /\ r.refer = h.refer

FailedOnArguments ==
    /\ last.op \in {"search_history", "calc_incremental_difference", "cache_increments"}
    /\ "raised" \in DOMAIN last

\* C19: search_history, calc_incremental_difference and cache_increments of
\* a Snapshot, called with a mode or an aware they do not know, fail with an
\* invalid-argument error (ValueError) before any I/O: no fingerprint is
\* taken again.
C19_InvalidArgumentsFailFirst ==
    FailedOnArguments => (last.raised = "ValueError" /\ table = last.before)

\* ------------------------------------------- cache runs over deleted files
\* The environment deletes the managed file p.
RemoveFile(p) ==
    /\ p \in path_list(table)
    /\ p \notin removed
    /\ removed' = removed \cup {p}
    /\ last' = Idle
    /\ UNCHANGED <<calls, table_prev, incremented, content, st_mtime, clock, resource,
                   table, historyExists, history, recentExists, recent, cache, runs,
                   sinceRun>>

NextCopy ==
    \/ \E p \in Paths : RemoveFile(p)
    \/ ReadHistoryHashTable
    \/ \E tag \in NextTags : EnforceCache(tag)
    \/ \E tag \in NextTags, mode \in {"recent", "all"},
          aware \in {"hash", "mtime", "both"}, upd \in BOOLEAN :
            CacheIncrements(tag, mode, aware, upd)

SpecCopy == Init /\ [][NextCopy]_vars

\* C17: a cache run has no partial success in the history: a run that
\* fails, as by the copy of a deleted file, leaves the history as it was,
\* and a run that succeeds and writes has written every one of its rows.
C17_NoPartialHistory ==
    last.op \in {"cache_increments", "enforce_cache"} =>
        /\ ~last.ok => history = last.histBefore
        /\ last.ok =>
              \/ history = last.histBefore
              \/ \A r \in last.df :
                    \E h \in history \cap last.df : HistoryKey(h) = HistoryKey(r)

C17_Witness ==
    /\ last.op \in {"cache_increments", "enforce_cache"}
    /\ ~last.ok
    /\ last.copied # {}
    /\ last.copied \cap removed = {}
    /\ cache # [tp \in Tags \X Paths |-> None]

MaxRules == 2   \* rules of one registry

\* The ignore arguments a caller gives.
IgnoreArgs == {None, Some({"tmp"})}

\* Resource.add(path, glob, key = key, ignore = ignore) for a single path.
AddRule(path, pattern, key, ignore) ==
    LET r == _add(resource, IF key # None THEN key[1] ELSE path, path, pattern, ignore)
    IN  /\ Cardinality(DOMAIN resource) < MaxRules
        /\ resource' = r.table
        /\ last' = [op |-> "add", raised |-> r.raised, before |-> resource,
                    path |-> path, ignore |-> ignore]
        /\ UNCHANGED registryOnly

\* Resource.files(sort_by_name=True).
Files ==
    /\ last' = [op |-> "files", files |-> files(resource)]
    /\ UNCHANGED resource
    /\ UNCHANGED registryOnly

NextDir ==
    \/ \E path \in Paths \cup Dirs \cup {"zz"}, pattern \in {"**/*", "*"},
          key \in {None, Some("k1")}, ignore \in IgnoreArgs :
            AddRule(path, pattern, key, ignore)
    \/ Files

SpecDir == InitAdd /\ [][NextDir]_vars

\* C15: the ignore set of every ManagedDirectory holds __pycache__ and
\* .ipynb_checkpoints, whatever the caller gave for ignore, and files()
\* returns no file with a part of its path in the ignore set of its rule.
C15_IgnoredNeverListed ==
    /\ \A k \in DOMAIN resource :
          IsManagedDirectory(resource[k]) =>
              {"__pycache__", ".ipynb_checkpoints"} \subseteq resource[k].ignore
    /\ last.op = "files" =>
          \A i \in 1..Len(last.files) :
              LET mf == last.files[i]
                  rule == resource[mf.key[1]]
              IN  IsManagedDirectory(rule) =>
                      /\ "__pycache__" \notin { parts(mf.path)[j] : j \in 1..Len(parts(mf.path)) }
                      /\ \A j \in 1..Len(parts(mf.path)) : parts(mf.path)[j] \notin rule.ignore

C15_Witness ==
    /\ last.op = "files"
    /\ \E i \in 1..Len(last.files) : last.files[i].path = "d/a/b.txt"
    /\ \E k \in DOMAIN resource :
          /\ IsManagedDirectory(resource[k])
          /\ resource[k].glob = "**/*"
          /\ "tmp" \in resource[k].ignore
          /\ \E i \in 1..Len(last.files) : last.files[i].key = Some(k)

\* C16 as the spec words it: the list files(sort_by_name=True) returns is
\* in the order of the paths.
C16_FilesInPathOrder ==
    last.op = "files" =>
        \A i, j \in 1..Len(last.files) :
            i < j => ~PathLess(last.files[j].path, last.files[i].path)

\* C16: the list files(sort_by_name=True) returns is in the order of the
\* keys of the rules, the files of one directory rule in the order of
\* their paths.
C16_FilesInKeyOrder ==
    last.op = "files" =>
        \A i, j \in 1..Len(last.files) :
            i < j =>
                LET f == last.files[i]
                    g == last.files[j]
                IN  \/ StrLess(f.key[1], g.key[1])
                    \/ f.key = g.key /\ PathLess(f.path, g.path)

C16_Witness ==
    /\ last.op = "files"
    /\ \E i, j \in 1..Len(last.files) :
          /\ i < j
          /\ PathLess(last.files[j].path, last.files[i].path)
          /\ last.files[i].prefix # None
          /\ last.files[j].prefix = None

\* ------------------------------------------------ enforce_cache, all files
\* The last operation was an enforce_cache that returned.
Enforced == last.op = "enforce_cache" /\ last.ok

\* C21: whatever the history relation held before, after enforce_cache(tag)
\* returns every managed path has its bytes under cache_root_dir/tag and
\* every slot has a history row with tag = tag and refer = tag that carries
\* the hash and the mtime of the file as it is now.
C21_EnforceCachesEverything ==
    Enforced =>
        \A s \in DOMAIN table :
            /\ cache[<<last.tag, s.path>>] = Some(content[s.path])
            /\ \E r \in RowsOf(history, s) :
                  /\ r.tag = last.tag /\ r.refer = last.tag
                  /\ r.prefix = s.prefix
                  /\ r.hash = hash_md5(content[s.path])
                  /\ r.mtime = st_mtime[s.path]
                  /\ table[s].hash = Some(r.hash) /\ table[s].mtime = Some(r.mtime)

\* An enforce_cache under a fresh tag over a history that already records a
\* slot with the fingerprint its file has now.
C21_Witness ==
    /\ Enforced /\ FreshTag
    /\ \E s \in DOMAIN table : \E h \in RowsOf(last.histBefore, s) :
          /\ h.hash = hash_md5(content[s.path])
          /\ h.mtime = st_mtime[s.path]
          /\ h.refer = h.tag

\* ------------------------------------------------- the history, append-only
\* C22: no step deletes or modifies a history row, except a cache run
\* (cache_increments or enforce_cache) that rewrites a row of its own tag:
\* every row whose tag differs from the tag of the run stays as it is.
C22_HistoryAppendOnly ==
    [][ \A h \in history :
          h \notin history' =>
              /\ last'.op \in {"cache_increments", "enforce_cache"}
              /\ last'.tag = h.tag ]_vars

\* A cache run that wrote rows over a history holding a row of another tag
\* whose file was modified since.
C22_Witness ==
    /\ CacheRun
    /\ history # last.histBefore
    /\ \E h \in last.histBefore :
          /\ h.tag # last.tag
          /\ h.hash # hash_md5(content[h.path])
          /\ h \in history

\* --------------------------------------------- database.py, the two tables
MaxWrites == 2

\* UNIQUE(path, key) of the recent table.
RecentKey(r) == <<r.path, r.key>>

\* An INSERT that keeps the old row next to the new one.
insert_or_replace_into_recent_plain_insert(rel, data) == { rel \cup data }

\* INSERT OR REPLACE of data under UNIQUE(path, key).
insert_or_replace_into_recent(rel, data) ==
    { { h \in rel : \A r \in data : RecentKey(h) # RecentKey(r) } \cup kept :
        kept \in { S \in SUBSET data :
                     \A r \in data :
                        Cardinality({ q \in S : RecentKey(q) = RecentKey(r) }) = 1 } }

\* What a call of a database function on the recent table leaves in last.
Wrote(op, ok, data) ==
    [op |-> op, ok |-> ok, df |-> data, recentBefore |-> recent]

\* create_table_recent(db_path, name): CREATE TABLE IF NOT EXISTS.
CreateTableRecent ==
    /\ ~recentExists
    /\ recentExists' = TRUE
    /\ last' = Wrote("create_table_recent", TRUE, {})
    /\ UNCHANGED <<calls, removed, content, st_mtime, clock, resource, table, table_prev,
                   historyExists, history, recent, cache, incremented, runs, sinceRun>>

\* insert_or_replace_into_recent(db_path, name, data), data the rows of the
\* Snapshot's as_hash_table(tag, refer_self=True); without the table the
\* statement raises sqlite3.OperationalError.
InsertOrReplaceIntoRecent(tag) ==
    LET data == as_hash_table(table, Some(tag), None, TRUE)
    IN  /\ calls < MaxWrites
        /\ IF recentExists
           THEN /\ calls' = calls + 1
                /\ recent' \in insert_or_replace_into_recent(recent, data)
                /\ last' = Wrote("insert_or_replace_into_recent", TRUE, data)
           ELSE /\ last' = Wrote("insert_or_replace_into_recent", FALSE, data)
                /\ UNCHANGED <<calls, recent>>
        /\ UNCHANGED <<removed, content, st_mtime, clock, resource, table, table_prev,
                       historyExists, history, recentExists, cache, incremented, runs,
                       sinceRun>>

NextTables ==
    \/ \E p \in Paths, c \in Contents : WriteFile(p, c)
    \/ CreateTableRecent
    \/ \E tag \in NextTags : InsertOrReplaceIntoRecent(tag)
    \/ \E tag \in NextTags : EnforceCache(tag)
    \/ \E tag \in NextTags, mode \in {"recent", "all"} :
          CacheIncrements(tag, mode, "hash", TRUE)

SpecTables == Init /\ [][NextTables]_vars

\* The rows the last operation wrote into the history, if it wrote any.
WrittenToHistory ==
    IF last.op = "enforce_cache" /\ last.ok THEN last.df
    ELSE IF last.op = "cache_increments" /\ last.ok /\ last.changed # {} THEN last.df
    ELSE {}

\* The rows the last operation wrote into the recent table, if it wrote any.
WrittenToRecent ==
    IF last.op = "insert_or_replace_into_recent" /\ last.ok THEN last.df ELSE {}

\* C23: the history holds at most one row per (path, key, tag) and the
\* recent table at most one row per (path, key), whatever runs and writes
\* came before, tags reused or not; the row found under a key just written
\* is a row of the data written, the row that was there before is gone.
C23_UniqueKeysUpsert ==
    /\ \A r, q \in history :
          (r.path = q.path /\ r.key = q.key /\ r.tag = q.tag) => r = q
    /\ \A r, q \in recent : (r.path = q.path /\ r.key = q.key) => r = q
    /\ \A d \in WrittenToHistory : \A r \in history :
          (r.path = d.path /\ r.key = d.key /\ r.tag = d.tag) => r \in last.df
    /\ \A d \in WrittenToRecent : \A r \in recent :
          (r.path = d.path /\ r.key = d.key) => r \in last.df

\* A cache run that reused a tag and replaced a row of that tag, after two
\* writes of the recent table, the second over the rows of the first.
C23_Witness ==
    /\ CacheRun /\ ~FreshTag
    /\ \E h \in last.histBefore : h.tag = last.tag /\ h \notin history
    /\ calls = MaxWrites
    /\ \A s \in DOMAIN table : RowsOf(recent, s) # {}

\* ------------------------------------------- where the copies are written
\* The managed files of the layout model: a file of the working directory,
\* one of its parent directory, and one given by an absolute path.
LayoutPaths == {"a", "../a", "/o/a"}

\* The working directory of the process.
cwd == <<"/", "w">>

\* cache_root_dir as the caller gives it: Path("cache").
cache_root_dir == <<"cache">>

is_absolute(pp) == Len(pp) > 0 /\ pp[1] = "/"

\* pathlib's d / p: an absolute p replaces d.
joinpath(d, pp) == IF is_absolute(pp) THEN pp ELSE d \o pp

\* The segments seen so far with the '..' segments followed.
RECURSIVE collapse(_, _)
collapse(pp, seen) ==
    IF pp = << >> THEN seen
    ELSE IF Head(pp) = ".."
         THEN collapse(Tail(pp), IF Len(seen) > 1 THEN SubSeq(seen, 1, Len(seen) - 1)
                                 ELSE seen)
         ELSE collapse(Tail(pp), Append(seen, Head(pp)))

\* The file the operating system opens for the path pp.
realpath(pp) == collapse(joinpath(cwd, pp), << >>)

\* dest_dir = Path(cache_root_dir) / tag
dest_dir(tag) == joinpath(cache_root_dir, <<tag>>)

\* save_path = dest_dir / path
save_path(tag, path) == joinpath(dest_dir(tag), parts(path))

\* os.path.samefile, which shutil.copyfile asks before it writes.
samefile(pp, qq) == realpath(pp) = realpath(qq)

\* The locations a copy of the layout model can be written to.
Locations == { realpath(save_path(tag, p)) : tag \in Tags, p \in LayoutPaths }

\* Snapshot._copy(dest_dir, path_list) on the file system fs, path after
\* path of the sequence; shutil.copy2 raises SameFileError where save_path
\* is the source itself, which ends the loop.
RECURSIVE _copy_to(_, _, _, _)
_copy_to(fs, tag, paths, written) ==
    IF paths = << >>
    THEN [fs |-> fs, written |-> written, raised |-> ""]
    ELSE IF samefile(parts(Head(paths)), save_path(tag, Head(paths)))
    THEN [fs |-> fs, written |-> written, raised |-> "SameFileError"]
    ELSE _copy_to([fs EXCEPT ![realpath(save_path(tag, Head(paths)))] =
                       Some(content[Head(paths)])],
                  tag, Tail(paths),
                  written \cup {[path |-> Head(paths),
                                  at |-> realpath(save_path(tag, Head(paths)))]})

\* The registries over LayoutPaths: every rule under a key of its own.
LayoutRegistries ==
    UNION { { [ k \in K |-> ManagedFile(f[k], Some(k), None, None, None, None) ] :
                f \in [K -> LayoutPaths] } : K \in (SUBSET Keys) \ {{}} }

InitLayout ==
    /\ calls = 0
    /\ removed = {}
    /\ content = [p \in LayoutPaths |-> "v1"]
    /\ st_mtime = [p \in LayoutPaths |-> 1]
    /\ clock = 1
    /\ resource \in LayoutRegistries
    /\ table = snapshot(resource)
    /\ table_prev = << >>
    /\ historyExists = FALSE
    /\ history = {}
    /\ recentExists = FALSE
    /\ recent = {}
    /\ cache = [loc \in Locations |-> None]
    /\ incremented = {}
    /\ runs = 0
    /\ sinceRun = [p \in Paths |-> "clean"]
    /\ last = Idle

\* What a cache run of the layout model leaves in last: written holds the
\* managed paths copied and the location each copy was written at.
Copied(op, ok, tag, written, raised) ==
    [op |-> op, ok |-> ok, tag |-> tag, written |-> written, raised |-> raised]

\* The environment writes c to the managed file p.
WriteLayoutFile(p, c) ==
    /\ clock < MaxClock
    /\ p \in path_list(table)
    /\ clock' = clock + 1
    /\ content' = [content EXCEPT ![p] = c]
    /\ st_mtime' = [st_mtime EXCEPT ![p] = clock + 1]
    /\ last' = Idle
    /\ UNCHANGED <<calls, removed, table_prev, incremented, resource, table, historyExists,
                   history, recentExists, recent, cache, runs, sinceRun>>

\* Snapshot.enforce_cache with the copies placed on the file system: the
\* paths of path_list in sorted order; a SameFileError leaves the copies
\* made before it and ends the run before the history is written.
EnforceCacheLayout(tag) ==
    LET c == _copy_to(cache, tag, SortedPaths(path_list(table)), {})
        t1 == update_table(table, TRUE, TRUE)
        df == as_hash_table(t1, Some(tag), None, TRUE)
    IN  /\ runs < MaxRuns
        /\ runs' = runs + 1
        /\ cache' = c.fs
        /\ UNCHANGED <<calls, removed, table_prev, incremented, content, st_mtime, clock,
                       resource, recentExists, recent, sinceRun>>
        /\ IF c.raised # ""
           THEN /\ last' = Copied("enforce_cache", FALSE, tag, c.written, c.raised)
                /\ UNCHANGED <<table, historyExists, history>>
           ELSE /\ table' = t1
                /\ historyExists' = TRUE
                /\ history' \in insert_or_replace_into_history(history, df)
                /\ last' = Copied("enforce_cache", TRUE, tag, c.written, "")

\* Snapshot.cache_increments(update=True) with the copies placed on the file
\* system: the paths of the changed rows in the order of the table.
CacheIncrementsLayout(tag, mode, aware) ==
    LET t1 == update_table(table, TRUE, TRUE)
        df_search == as_hash_table(t1, None, None, FALSE)
    IN  /\ runs < MaxRuns
        /\ runs' = runs + 1
        /\ table' = t1
        /\ UNCHANGED <<calls, removed, table_prev, incremented, content, st_mtime, clock,
                       resource, historyExists, recentExists, recent, sinceRun>>
        /\ IF ~historyExists
           THEN /\ last' = Copied("cache_increments", FALSE, tag, {}, "OperationalError")
                /\ UNCHANGED <<history, cache>>
           ELSE \E df_history \in search_history(history, df_search, mode, aware) :
                  LET inc == calc_incremental_difference(t1, tag, None, df_history)
                      slots == SlotsInOrder({ SlotOfRow(r) : r \in inc.changed })
                      c == _copy_to(cache, tag, [ i \in 1..Len(slots) |-> slots[i].path ], {})
                  IN  /\ cache' = c.fs
                      /\ IF inc.changed = {} \/ c.raised # ""
                         THEN /\ UNCHANGED history
                              /\ last' = Copied("cache_increments", c.raised = "", tag,
                                                c.written, c.raised)
                         ELSE /\ history' \in
                                   insert_or_replace_into_history(history, inc.df)
                              /\ last' = Copied("cache_increments", TRUE, tag,
                                                c.written, "")

NextLayout ==
    \/ \E p \in LayoutPaths, c \in Contents : WriteLayoutFile(p, c)
    \/ ReadHistoryHashTable
    \/ \E tag \in NextTags : EnforceCacheLayout(tag)
    \/ \E tag \in NextTags, mode \in {"recent", "all"} :
          CacheIncrementsLayout(tag, mode, "hash")

SpecLayout == InitLayout /\ [][NextLayout]_vars

\* a is below the directory d.
Inside(d, a) == Len(d) < Len(a) /\ SubSeq(a, 1, Len(d)) = d

\* C24: every file a cache run with tag T writes is written at
\* cache_root_dir/T/<managed path>, which lies inside the directory
\* cache_root_dir/T and is not the managed file itself, for relative paths,
\* absolute paths and paths with '..' segments; and a run over such paths
\* returns.
C24_WritesInsideTagDirectory ==
    last.op \in {"enforce_cache", "cache_increments"} =>
        /\ \A w \in last.written :
              /\ w.at = realpath(dest_dir(last.tag) \o parts(w.path))
              /\ Inside(realpath(dest_dir(last.tag)), w.at)
              /\ w.at # realpath(parts(w.path))
        /\ last.raised # "SameFileError"

\* ------------------------------------------ the export of a Resource
\* ManagedFile.as_dict(): path, and the fields the conditions of the code
\* let through; mtime is written where prefix is set.
ManagedFile_as_dict(mf) ==
    LET D == {"path"} \cup (IF mf.key # None THEN {"key"} ELSE {})
                      \cup (IF mf.prefix # None THEN {"prefix", "mtime"} ELSE {})
                      \cup (IF mf.group # None THEN {"group"} ELSE {})
                      \cup (IF mf.hash # None THEN {"hash"} ELSE {})
    IN  [ x \in D |-> CASE x = "path" -> mf.path
                        [] x = "key" -> mf.key[1]
                        [] x = "prefix" -> mf.prefix[1]
                        [] x = "group" -> mf.group[1]
                        [] x = "hash" -> mf.hash[1]
                        [] x = "mtime" -> mf.mtime ]

\* ManagedDirectory.as_dict(): path, glob, ignore, and key and group if set.
ManagedDirectory_as_dict(md) ==
    LET D == {"path", "glob", "ignore"} \cup (IF md.key # None THEN {"key"} ELSE {})
                                        \cup (IF md.group # None THEN {"group"} ELSE {})
    IN  [ x \in D |-> CASE x = "path" -> md.path
                        [] x = "glob" -> md.glob
                        [] x = "ignore" -> md.ignore
                        [] x = "key" -> md.key[1]
                        [] x = "group" -> md.group[1] ]

\* v.as_dict() of a rule of the registry.
rule_as_dict(v) ==
    IF IsManagedDirectory(v) THEN ManagedDirectory_as_dict(v) ELSE ManagedFile_as_dict(v)

\* The dict comprehension of Resource.as_dict over the rules in the order
\* of the registry: an item per str(v.path); a path that comes again keeps
\* its place and takes the later descriptor.
RECURSIVE as_dict_items(_, _, _)
as_dict_items(res, order, items) ==
    IF order = << >>
    THEN items
    ELSE LET v == res[Head(order)]
             item == <<v.path, rule_as_dict(v)>>
             at == { i \in 1..Len(items) : items[i][1] = v.path }
         IN  as_dict_items(res, Tail(order),
                 IF at = {}
                 THEN Append(items, item)
                 ELSE [ i \in 1..Len(items) |-> IF i \in at THEN item ELSE items[i] ])

\* Resource.as_dict() of a registry whose rules were inserted in order.
as_dict(res, order) == as_dict_items(res, order, << >>)

\* The orders in which the keys of a registry can have been inserted.
InsertionOrders(res) ==
    { seq \in [1..Cardinality(DOMAIN res) -> DOMAIN res] :
        \A i, j \in 1..Cardinality(DOMAIN res) : seq[i] = seq[j] => i = j }

\* inherit_args(args, key=str(k), ...) for a dictionary args: its entries
\* over the inherited ones; _add takes key, path, glob, group and ignore.
inherit_descriptor(k, d) ==
    [path |-> d.path,
     key |-> IF "key" \in DOMAIN d THEN d.key ELSE k,
     glob |-> IF "glob" \in DOMAIN d THEN d.glob ELSE "**/*",
     ignore |-> IF "ignore" \in DOMAIN d THEN Some(d.ignore) ELSE None,
     unexpected |-> DOMAIN d \ {"path", "key", "glob", "group", "ignore"}]

\* Resource.add(mapping of dictionaries), item after item.
RECURSIVE add_descriptors(_, _)
add_descriptors(res, items) ==
    IF items = << >>
    THEN Added(res, "")
    ELSE LET kw == inherit_descriptor(Head(items)[1], Head(items)[2])
             r == IF kw.unexpected # {}
                  THEN Added(res, "TypeError")
                  ELSE _add(res, kw.key, kw.path, kw.glob, kw.ignore)
         IN  IF r.raised # "" THEN r ELSE add_descriptors(r.table, Tail(items))

\* Resource.as_dict(); the registry of the model does not record the order
\* of insertion the table of the code keeps, so the export is taken for
\* every order the registry can have been built in.
AsDict ==
    /\ \E order \in InsertionOrders(resource) :
          last' = [op |-> "as_dict", doc |-> as_dict(resource, order)]
    /\ UNCHANGED resource
    /\ UNCHANGED registryOnly

\* Resource(name, obj = the document exported last): a new Resource built
\* by add from the document takes the place of the exported one.
Reload ==
    /\ last.op = "as_dict"
    /\ LET r == add_descriptors(<< >>, last.doc)
       IN  /\ resource' = r.table
           /\ last' = [op |-> "reload", raised |-> r.raised, exported |-> resource,
                       doc |-> last.doc]
    /\ UNCHANGED registryOnly

NextExport ==
    \/ \E path \in {"a", "b", "d"}, pattern \in {"**/*", "*"},
          key \in {None, Some("k1"), Some("k2")}, ignore \in IgnoreArgs :
            AddRule(path, pattern, key, ignore)
    \/ AsDict
    \/ Reload

SpecExport == InitAdd /\ [][NextExport]_vars

\* C25: the exported document holds one descriptor per registered key, and
\* the registry built from it is the exported registry: the same keys,
\* each with the same file or directory rule; also where one path is
\* registered under two keys.
C25_ExportRoundTrips ==
    /\ last.op = "as_dict" =>
          /\ Len(last.doc) = Cardinality(DOMAIN resource)
          /\ \A k \in DOMAIN resource :
                \E i \in 1..Len(last.doc) : last.doc[i][2] = rule_as_dict(resource[k])
    /\ last.op = "reload" =>
          /\ last.raised = ""
          /\ resource = last.exported

\* ----------------------------------------- fingerprints, once they are set
\* Two Snapshots of one Resource, no fingerprint taken yet.
InitDefer ==
    /\ calls = 0
    /\ removed = {}
    /\ content = [p \in Paths |-> "v1"]
    /\ st_mtime = [p \in Paths |-> 1]
    /\ clock = 1
    /\ resource = CompareRegistry
    /\ table = snapshot(resource)
    /\ table_prev = snapshot(resource)
    /\ historyExists = FALSE
    /\ history = {}
    /\ recentExists = FALSE
    /\ recent = {}
    /\ cache = [tp \in Tags \X Paths |-> None]
    /\ incremented = {}
    /\ runs = 0
    /\ sinceRun = [p \in Paths |-> "clean"]
    /\ last = Idle

\* The variables a method of one ManagedFile of the table leaves alone.
entryOnly == <<calls, removed, content, st_mtime, clock, resource, table_prev,
               historyExists, history, recentExists, recent, cache, incremented, runs,
               sinceRun>>

\* table[s].defer_hash()
DeferHash(s) ==
    /\ table' = [table EXCEPT ![s] = defer_hash(@)]
    /\ last' = [op |-> "defer_hash", slot |-> s]
    /\ UNCHANGED entryOnly

\* table[s].defer_mtime()
DeferMtime(s) ==
    /\ table' = [table EXCEPT ![s] = defer_mtime(@)]
    /\ last' = [op |-> "defer_mtime", slot |-> s]
    /\ UNCHANGED entryOnly

\* table[s].defer_update()
DeferUpdate(s) ==
    /\ table' = [table EXCEPT ![s] = defer_update(@)]
    /\ last' = [op |-> "defer_update", slot |-> s]
    /\ UNCHANGED entryOnly

\* table[s].update(update_hash, update_mtime); update_hash() and
\* update_mtime() are the calls with one of the flags.
Update(s, update_hash, update_mtime) ==
    /\ update_hash \/ update_mtime
    /\ table' = [table EXCEPT ![s] = update(@, update_hash, update_mtime)]
    /\ last' = [op |-> "update", slot |-> s]
    /\ UNCHANGED entryOnly

NextDefer ==
    \/ \E c \in Contents : WriteFile("a", c)
    \/ \E s \in DOMAIN table : DeferHash(s) \/ DeferMtime(s) \/ DeferUpdate(s)
    \/ \E s \in DOMAIN table, uh, um \in BOOLEAN : Update(s, uh, um)
    \/ \E s \in DOMAIN table, q \in DOMAIN table_prev, aware \in aware_set :
          IsSameFileWith(s, q, aware)

SpecDefer == InitDefer /\ [][NextDefer]_vars

\* The field f of an entry of t is set and the step changes it.
SetFieldChanges(t, tNext) ==
    \E s \in DOMAIN t :
        \/ t[s].hash # None /\ tNext[s].hash # t[s].hash
        \/ t[s].mtime # None /\ tNext[s].mtime # t[s].mtime

\* C26: a hash or mtime that is set is changed by no step but an update
\* (update, update_hash, update_mtime): defer_hash, defer_mtime,
\* defer_update and is_same_file_with in every mode leave it as it is, also
\* when the file was written since the fingerprint was taken.
C26_SetFingerprintStays ==
    [][ (SetFieldChanges(table, table') \/ SetFieldChanges(table_prev, table_prev'))
          => last'.op = "update" ]_vars

\* A defer_update, or a comparison in the mode "both", of an entry whose
\* hash and mtime were taken before the file was written again.
C26_Witness ==
    /\ \/ last.op = "defer_update"
       \/ last.op = "is_same_file_with" /\ last.aware = "both"
    /\ \E s \in DOMAIN table :
          /\ (last.op = "defer_update" => s = last.slot)
          /\ (last.op = "is_same_file_with" => table[s] = defer_update(last.self))
          /\ table[s].hash # None /\ table[s].hash # Some(get_hash(table[s]))
          /\ table[s].mtime # None /\ table[s].mtime # Some(get_mtime(table[s]))

\* ------------------------------------------- SnapshotTableKey, its equality
\* The components two keys are built of: keys, prefixes and paths with and
\* without the character '|'.
KeyComponents == {None, Some("a"), Some("a|")}

PrefixComponents == {None, Some("|")}

PathComponents == {"b", "|b"}

\* SnapshotTableKey.__str__
SnapshotTableKey_str(k) == k.key \o "|" \o k.prefix \o "|" \o k.path

\* SnapshotTableKey.__eq__: the strings of the two keys compared; __hash__
\* is the hash of the same string.
SnapshotTableKey_eq(x, y) == SnapshotTableKey_str(x) = SnapshotTableKey_str(y)

\* Two SnapshotTableKey objects, as their constructor leaves them.
InitKey ==
    /\ calls = 0
    /\ removed = {}
    /\ content = [p \in Paths |-> "v1"]
    /\ st_mtime = [p \in Paths |-> 1]
    /\ clock = 1
    /\ resource = << >>
    /\ table = << >>
    /\ table_prev = << >>
    /\ historyExists = FALSE
    /\ history = {}
    /\ recentExists = FALSE
    /\ recent = {}
    /\ cache = [tp \in Tags \X Paths |-> None]
    /\ incremented = {}
    /\ runs = 0
    /\ sinceRun = [p \in Paths |-> "clean"]
    /\ \E k1, k2 \in KeyComponents, p1, p2 \in PrefixComponents, q1, q2 \in PathComponents :
          last = [op |-> "SnapshotTableKey",
                  x |-> SnapshotTableKey(k1, p1, q1), y |-> SnapshotTableKey(k2, p2, q2)]

\* x == y
KeyEq ==
    /\ last.op = "SnapshotTableKey"
    /\ last' = [op |-> "__eq__", x |-> last.x, y |-> last.y,
                equal |-> SnapshotTableKey_eq(last.x, last.y)]
    /\ UNCHANGED <<calls, removed, content, st_mtime, clock, resource, table, table_prev,
                   historyExists, history, recentExists, recent, cache, incremented, runs,
                   sinceRun>>

\* Snapshot(name, [fx, fy]) for two files whose keys are x and y: the dict
\* comprehension of Snapshot.__init__, whose slots are told apart by
\* __hash__ and __eq__, that is by the strings of the keys; the file that
\* comes later takes a slot that is there already.
KeyTable ==
    LET fx == ManagedFile(last.x.path, null_string_to_None(last.x.key),
                          null_string_to_None(last.x.prefix), None, None, None)
        fy == ManagedFile(last.y.path, null_string_to_None(last.y.key),
                          null_string_to_None(last.y.prefix), None, None, None)
    IN  /\ last.op = "SnapshotTableKey"
        /\ table' = [ str \in {SnapshotTableKey_str(last.x), SnapshotTableKey_str(last.y)} |->
                        IF str = SnapshotTableKey_str(last.y) THEN fy ELSE fx ]
        /\ last' = [op |-> "Snapshot", x |-> last.x, y |-> last.y]
        /\ UNCHANGED <<calls, removed, content, st_mtime, clock, resource, table_prev,
                       historyExists, history, recentExists, recent, cache, incremented,
                       runs, sinceRun>>

NextKey == KeyEq \/ KeyTable

SpecKey == InitKey /\ [][NextKey]_vars

\* C27: two SnapshotTableKeys are equal, and take one slot of a Snapshot
\* table, exactly if their key, prefix and path are pairwise equal, also
\* for components that hold the character '|'.
C27_EqualIffComponentsEqual ==
    /\ last.op = "__eq__" => (last.equal <=> last.x = last.y)
    /\ last.op = "Snapshot" => (Cardinality(DOMAIN table) = 1 <=> last.x = last.y)

\* ------------------------------------------- the time of the history rows
\* The timestamp argument of a cache run: left out, or a time that is the
\* date of no tag.
Timestamps == {None, Some(MaxRuns + 7)}

\* What a cache run that is given a timestamp leaves in last: df holds the
\* rows it wrote into the history.
Timed(op, ok, tag, timestamp, df) ==
    [op |-> op, ok |-> ok, tag |-> tag, timestamp |-> timestamp, df |-> df]

\* Snapshot.enforce_cache(db_path, cache_root_dir, tag, timestamp), no file
\* of the Snapshot deleted: the rows are those of as_hash_table(tag=tag,
\* refer_self=True, update_hash=True, update_mtime=True), which is not
\* given the timestamp.
EnforceCacheTimed(tag, timestamp) ==
    LET t1 == update_table(table, TRUE, TRUE)
        df == as_hash_table(t1, Some(tag), None, TRUE)
    IN  /\ runs < MaxRuns
        /\ runs' = runs + 1
        /\ cache' = _copy(cache, tag, path_list(table))
        /\ table' = t1
        /\ historyExists' = TRUE
        /\ history' \in insert_or_replace_into_history(history, df)
        /\ sinceRun' = [p \in Paths |-> "clean"]
        /\ last' = Timed("enforce_cache", TRUE, tag, timestamp, df)
        /\ UNCHANGED <<calls, removed, table_prev, incremented, content, st_mtime, clock,
                       resource, recentExists, recent>>

\* Snapshot.cache_increments(db_path, cache_root_dir, tag, timestamp, mode,
\* aware, update=True), no file of the Snapshot deleted:
\* calc_incremental_difference hands the timestamp to as_hash_table.
CacheIncrementsTimed(tag, timestamp, mode, aware) ==
    LET t1 == update_table(table, TRUE, TRUE)
        df_search == as_hash_table(t1, None, None, FALSE)
    IN  /\ runs < MaxRuns
        /\ runs' = runs + 1
        /\ table' = t1
        /\ UNCHANGED <<calls, removed, table_prev, content, st_mtime, clock, resource,
                       historyExists, recentExists, recent>>
        /\ IF ~historyExists
           THEN /\ last' = Timed("cache_increments", FALSE, tag, timestamp, {})
                /\ UNCHANGED <<history, cache, incremented, sinceRun>>
           ELSE \E df_history \in search_history(history, df_search, mode, aware) :
                  LET inc == calc_incremental_difference(t1, tag, timestamp, df_history)
                      paths == { r.path : r \in inc.changed }
                  IN  /\ sinceRun' = [p \in Paths |-> "clean"]
                      /\ IF inc.changed = {}
                         THEN /\ UNCHANGED <<history, cache, incremented>>
                              /\ last' = Timed("cache_increments", TRUE, tag, timestamp, {})
                         ELSE /\ cache' = _copy(cache, tag, paths)
                              /\ incremented' = incremented \cup ({tag} \X paths)
                              /\ history' \in
                                   insert_or_replace_into_history(history, inc.df)
                              /\ last' = Timed("cache_increments", TRUE, tag, timestamp,
                                               inc.df)

NextTime ==
    \/ \E p \in Paths, c \in Contents : WriteFile(p, c)
    \/ ReadHistoryHashTable
    \/ \E tag \in NextTags, timestamp \in Timestamps : EnforceCacheTimed(tag, timestamp)
    \/ \E tag \in NextTags, timestamp \in Timestamps, aware \in {"hash", "both"} :
          CacheIncrementsTimed(tag, timestamp, "recent", aware)

SpecTime == Init /\ [][NextTime]_vars

\* The time the rows of a run are to carry: the timestamp given, or the
\* one the tag yields.
TimeAsked(tag, timestamp) ==
    IF timestamp # None THEN timestamp[1] ELSE timestamp_from_unique_name(tag)

\* C28: the rows a cache run writes into the history, a cache_increments
\* as well as an enforce_cache, carry in time the timestamp the caller
\* gave, and the timestamp derived from the tag if none was given.
C28_TimeIsGivenOrDerived ==
    (last.op \in {"enforce_cache", "cache_increments"} /\ last.ok) =>
        \A r \in last.df :
            /\ r \in history
            /\ r.time = TimeAsked(last.tag, last.timestamp)

\* ------------------------------------------------ add, given a mapping
\* The last operation was an add of a mapping that raised nothing.
AddedMapping == last.op = "add" /\ "items" \in DOMAIN last /\ last.raised = ""

\* C29: after add(mapping) every entry is registered under the key the
\* mapping has for it, whether the entry is a path (or a [path, glob] pair)
\* or a dictionary, also a dictionary with a 'key' entry of its own; the
\* call registers nothing under any other key.
C29_MappingKeysAreRegistryKeys ==
    AddedMapping =>
        /\ \A i \in 1..Len(last.items) :
              /\ last.items[i][1] \in DOMAIN resource
              /\ resource[last.items[i][1]].path = last.items[i][2].path
        /\ DOMAIN resource =
              DOMAIN last.before \cup { last.items[i][1] : i \in 1..Len(last.items) }

\* ------------------------------------------- the key of a default entry
\* C30: a file registered without a key, whose registry key is its path
\* string, is recorded with key = '' in the history rows a cache run writes.
C30_DefaultKeyRecordedEmpty ==
    CacheRun =>
        \A s \in DOMAIN table :
            table[s].key = Some(table[s].path) =>
                \A r \in last.df : r.path = table[s].path => (r \in history => r.key = "")

\* ------------------------------------------------- dropping the two tables
\* What a drop leaves in last: the tables it found.
Dropped(op) ==
    [op |-> op, historyBefore |-> historyExists, recentBefore |-> recentExists]

\* Snapshot.drop_recent_hash_table(db_path): DROP TABLE IF EXISTS <name>,
\* if the table <name> exists.
DropRecentHashTable ==
    /\ recentExists' = FALSE
    /\ recent' = {}
    /\ last' = Dropped("drop_recent_hash_table")
    /\ UNCHANGED <<calls, removed, content, st_mtime, clock, resource, table, table_prev,
                   historyExists, history, cache, incremented, runs, sinceRun>>

\* Snapshot.drop_history_hash_table(db_path): DROP TABLE IF EXISTS
\* history_<name>, if is_table_exists(db_path, self.name), the test of the
\* table <name>.
DropHistoryHashTable ==
    /\ IF recentExists
       THEN historyExists' = FALSE /\ history' = {}
       ELSE UNCHANGED <<historyExists, history>>
    /\ last' = Dropped("drop_history_hash_table")
    /\ UNCHANGED <<calls, removed, content, st_mtime, clock, resource, table, table_prev,
                   recentExists, recent, cache, incremented, runs, sinceRun>>

NextDrop ==
    \/ \E p \in Paths, c \in Contents : WriteFile(p, c)
    \/ CreateTableRecent
    \/ ReadHistoryHashTable
    \/ \E tag \in NextTags : EnforceCache(tag)
    \/ DropRecentHashTable
    \/ DropHistoryHashTable

SpecDrop == Init /\ [][NextDrop]_vars

\* C31: after drop_history_hash_table returns the table history_<name>
\* does not exist, whether the table <name> exists or not.
C31_HistoryTableDropped ==
    last.op = "drop_history_hash_table" => (~historyExists /\ history = {})

\* ------------------------------------------------------- FrozenContext.tag
\* df['tag'].value_counts(): the distinct tags of the rows, each with the
\* number of rows carrying it.
value_counts(df) ==
    [t \in { r.tag : r \in df } |-> Cardinality({ r \in df : r.tag = t })]

\* The most frequent tag, index[0] of value_counts, taken without the test
\* of the number of distinct tags.
FrozenContext_tag_first_index(df) ==
    LET xs == value_counts(df)
    IN  IF DOMAIN xs = {}
        THEN [ok |-> FALSE, tag |-> None]
        ELSE [ok |-> TRUE,
              tag |-> Some(CHOOSE t \in DOMAIN xs : \A u \in DOMAIN xs : xs[u] <= xs[t])]

\* FrozenContext.tag: RuntimeError unless the rows carry one distinct tag.
FrozenContext_tag(df) ==
    LET xs == value_counts(df)
    IN  IF Cardinality(DOMAIN xs) # 1
        THEN [ok |-> FALSE, tag |-> None]
        ELSE [ok |-> TRUE, tag |-> Some(CHOOSE t \in DOMAIN xs : TRUE)]

\* FrozenContext(df, cache_root_dir).tag on rows read from history_<name>.
FrozenTag ==
    \E df \in SUBSET history :
        /\ last' = [op |-> "FrozenContext.tag", df |-> df] @@ FrozenContext_tag(df)
        /\ UNCHANGED <<calls, removed, content, st_mtime, clock, resource, table, table_prev,
                       historyExists, history, recentExists, recent, cache, incremented,
                       runs, sinceRun>>

NextFrozen ==
    \/ \E p \in Paths, c \in Contents : WriteFile(p, c)
    \/ \E tag \in NextTags : EnforceCache(tag)
    \/ FrozenTag

SpecFrozen == Init /\ [][NextFrozen]_vars

\* C32: FrozenContext.tag returns the tag of rows that carry exactly one
\* distinct tag and raises on rows that carry more than one; a returned tag
\* is the tag of every row.
C32_TagOnlyWhenUnique ==
    last.op = "FrozenContext.tag" =>
        LET tags == { r.tag : r \in last.df }
        IN  /\ Cardinality(tags) = 1 => (last.ok /\ tags = {last.tag[1]})
            /\ Cardinality(tags) > 1 => ~last.ok
            /\ last.ok => \A r \in last.df : r.tag = last.tag[1]

\* A context over rows of two runs raises; a context over the rows of one
\* run, with rows of another run in the table, returns that run's tag.
C32_Witness ==
    /\ last.op = "FrozenContext.tag"
    /\ ~last.ok
    /\ Cardinality({ r.tag : r \in last.df }) = 2
    /\ Cardinality(last.df) = 3

C32_WitnessReturned ==
    /\ last.op = "FrozenContext.tag"
    /\ last.ok
    /\ Cardinality(last.df) = 2
    /\ \E r \in history : r.tag # last.tag[1]

\* ------------------------------------------------------- refer integrity
\* The tag supplier's next name, carried by no earlier run.
NewTags == { get_unique_name(d, "x") : d \in { runs + 1 } \cap Dates }

\* Cache runs under pairwise distinct tags, cache_increments with
\* update=True and aware in {hash, both}, and file writes between them.
NextRefer ==
    \/ \E p \in Paths, c \in Contents : WriteFile(p, c)
    \/ NewSnapshot
    \/ ReadHistoryHashTable
    \/ \E tag \in NewTags : EnforceCache(tag)
    \/ \E tag \in NewTags, mode \in {"recent", "all"}, aware \in {"hash", "both"} :
            CacheIncrements(tag, mode, aware, TRUE)

SpecRefer == Init /\ [][NextRefer]_vars

\* The same runs with the copies placed on the file system.
NextReferLayout ==
    \/ \E p \in LayoutPaths, c \in Contents : WriteLayoutFile(p, c)
    \/ ReadHistoryHashTable
    \/ \E tag \in NewTags : EnforceCacheLayout(tag)
    \/ \E tag \in NewTags, mode \in {"recent", "all"}, aware \in {"hash", "both"} :
            CacheIncrementsLayout(tag, mode, aware)

SpecReferLayout == InitLayout /\ [][NextReferLayout]_vars

\* FrozenFile(path=row['path'], cache_root_dir, tag=row['refer']).path:
\* cache_root_dir / tag / origin.
FrozenFile_path(r) == joinpath(joinpath(cache_root_dir, <<r.refer>>), parts(r.path))

\* The content of the file at the path pp of the cache, None if there is
\* no such file.
CachedAt(pp) == IF realpath(pp) \in Locations THEN cache[realpath(pp)] ELSE None

\* C33: after cache runs under pairwise distinct tags (enforce_cache, or
\* cache_increments with update=True and aware in {hash, both}) with file
\* writes between them, the file cache_root_dir/r.refer/r.path of every
\* history row r exists and its content has the hash r.hash.
C33_ReferIntegrity ==
    \A r \in history :
        /\ CachedAt(FrozenFile_path(r)) # None
        /\ hash_md5(CachedAt(FrozenFile_path(r))[1]) = r.hash

\* The same for managed paths below the working directory, where the
\* directories of two tags share no file.
C33_ReferIntegrityPlainPaths ==
    \A r \in history :
        /\ r.refer \in Tags
        /\ cache[<<r.refer, r.path>>] # None
        /\ hash_md5(cache[<<r.refer, r.path>>][1]) = r.hash

\* A cache_increments run left a row that refers to an earlier run's
\* directory for a file that was written before the run and is not in
\* the directory of the run's own tag, beside a row of a file it copied.
C33_WitnessPlainPaths ==
    /\ IncrementalRun
    /\ \E r \in history :
          /\ r.tag = last.tag /\ r.refer # r.tag
          /\ cache[<<r.tag, r.path>>] = None
          /\ st_mtime[r.path] > 1
    /\ \E r \in history : r.tag = last.tag /\ r.refer = r.tag

\* ------------------------------------- the rows of the incremental difference
\* len(pd.merge(df_current, df_refer, how="left", on=["path", "key",
\* "prefix"])): a row of df_current gives one row for every row of
\* df_history with its path, key and prefix, and one row if there is none.
RECURSIVE merge_len(_, _)
merge_len(df_current, df_history) ==
    IF df_current = {} THEN 0
    ELSE LET c == CHOOSE x \in df_current : TRUE
             m == Cardinality({ h \in df_history :
                                  h.path = c.path /\ h.key = c.key /\ h.prefix = c.prefix })
         IN  (IF m = 0 THEN 1 ELSE m) + merge_len(df_current \ {c}, df_history)

\* C34: in mode "recent" and in mode "all" the row set
\* calc_incremental_difference returns has exactly one row for every slot of
\* the Snapshot, as many rows as as_hash_table, also where several history
\* rows match a slot.
C34_OneRowPerSlot ==
    (last.op = "calc_incremental_difference" /\ last.ok) =>
        LET df_current == as_hash_table(table, Some(last.tag), None, TRUE)
        IN  /\ merge_len(df_current, last.df_history) = Cardinality(df_current)
            /\ \A s \in DOMAIN table :
                  Cardinality({ r \in last.df : SlotOfRow(r) = s }) = 1

\* ------------------------------------------ the objects behind the entities
\* The ManagedFile objects a run of the model can create.
MaxObjects == 8

\* The ManagedFile object with the identity id and the fields of mf.
Object(id, mf) == ("id" :> id) @@ mf

\* A copy() that returns the object itself.
ManagedFile_copy_self(mf, id) == mf

\* ManagedFile.copy(): a new object, identity id, with the field values of mf.
ManagedFile_copy(mf, id) == Object(id, copy(mf))

\* Resource.files(sort_by_name=True) of a registry of file rules: v.copy()
\* of rule after rule; the new objects take the identities after base.
Resource_files(res, base) ==
    LET rules == list(res)
    IN  [ i \in 1..Len(rules) |-> ManagedFile_copy(rules[i], base + i) ]

\* Resource.snapshot(): Snapshot(name, files(sort_by_name=True)).
Resource_snapshot(res, base) ==
    LET fs == Resource_files(res, base)
    IN  SnapshotInit({ fs[i] : i \in 1..Len(fs) })

\* The registries of Registries, their rules the objects 1 and 2.
ObjectRegistries ==
    { [ k \in DOMAIN r |-> Object(IF k = "k1" THEN 1 ELSE 2, r[k]) ] : r \in Registries }

\* The identities of the objects a registry or table holds.
Ids(holder) == { holder[x].id : x \in DOMAIN holder }

\* The identities handed out so far.
Allocated ==
    LET ids == Ids(resource) \cup Ids(table) \cup Ids(table_prev)
    IN  CHOOSE m \in ids : \A i \in ids : i <= m

\* A Resource and two Snapshots of it.
InitObjects ==
    /\ calls = 0
    /\ removed = {}
    /\ content = [p \in Paths |-> "v1"]
    /\ st_mtime = [p \in Paths |-> 1]
    /\ clock = 1
    /\ resource \in ObjectRegistries
    /\ table = Resource_snapshot(resource, 2)
    /\ table_prev = Resource_snapshot(resource, 4)
    /\ historyExists = FALSE
    /\ history = {}
    /\ recentExists = FALSE
    /\ recent = {}
    /\ cache = [tp \in Tags \X Paths |-> None]
    /\ incremented = {}
    /\ runs = 0
    /\ sinceRun = [p \in Paths |-> "clean"]
    /\ last = [op |-> "snapshot", on |-> "table_prev"]

\* What the registry or table holder holds once the objects of the table
\* before were changed in place to their state in after.
Stored(holder, before, after) ==
    [ x \in DOMAIN holder |->
        IF \E z \in DOMAIN before : before[z].id = holder[x].id
        THEN after[CHOOSE z \in DOMAIN before : before[z].id = holder[x].id]
        ELSE holder[x] ]

\* The variables no method of an entity writes.
objectsOnly == <<calls, removed, content, st_mtime, clock, historyExists, history,
                 recentExists, recent, cache, incremented, runs, sinceRun>>

\* snap = resource.snapshot(), for the first or the second Snapshot.
TakeSnapshot(on) ==
    /\ Allocated + Cardinality(DOMAIN resource) <= MaxObjects
    /\ IF on = "table"
       THEN table' = Resource_snapshot(resource, Allocated) /\ UNCHANGED table_prev
       ELSE table_prev' = Resource_snapshot(resource, Allocated) /\ UNCHANGED table
    /\ last' = [op |-> "snapshot", on |-> on]
    /\ UNCHANGED resource
    /\ UNCHANGED objectsOnly

\* Snapshot.update_table(update_hash, update_mtime) of one of the two
\* Snapshots: mf.update(copy=False, ...) on each of its objects.  It is the
\* step by which as_hash_table with update flags, Snapshot.get_updates,
\* enforce_cache and cache_increments(update=True) write to the entities.
UpdateTableObjects(on, update_hash, update_mtime) ==
    LET before == IF on = "table" THEN table ELSE table_prev
        after == update_table(before, update_hash, update_mtime)
    IN  /\ update_hash \/ update_mtime
        /\ table' = Stored(table, before, after)
        /\ table_prev' = Stored(table_prev, before, after)
        /\ resource' = Stored(resource, before, after)
        /\ last' = [op |-> "update_table", on |-> on]
        /\ UNCHANGED objectsOnly

\* get_updates(table_prev, table, aware): is_same_file_with, and with it
\* the defer_* methods, on the objects of the slots both tables have.
GetUpdatesObjects(aware) ==
    LET both == DOMAIN table \cap DOMAIN table_prev
        cur == [ z \in DOMAIN table |->
                   IF z \in both
                   THEN is_same_file_with(table[z], table_prev[z], aware).self
                   ELSE table[z] ]
        old == [ z \in DOMAIN table_prev |->
                   IF z \in both
                   THEN is_same_file_with(table[z], table_prev[z], aware).other
                   ELSE table_prev[z] ]
    IN  /\ table' = Stored(Stored(table, table, cur), table_prev, old)
        /\ table_prev' = Stored(Stored(table_prev, table, cur), table_prev, old)
        /\ resource' = Stored(Stored(resource, table, cur), table_prev, old)
        /\ last' = [op |-> "get_updates", on |-> "both"]
        /\ UNCHANGED objectsOnly

NextObjects ==
    \/ \E c \in Contents : WriteFile("a", c)
    \/ \E on \in {"table", "table_prev"} : TakeSnapshot(on)
    \/ \E on \in {"table", "table_prev"}, uh, um \in BOOLEAN : UpdateTableObjects(on, uh, um)
    \/ \E aware \in aware_set : GetUpdatesObjects(aware)

SpecObjects == InitObjects /\ [][NextObjects]_vars

\* C35: an operation that refreshes or lazily takes fingerprints on a
\* Snapshot leaves the hash and mtime of every rule of the Resource's
\* registry as they were, and changes no entity of the other Snapshot of the
\* same Resource; the registry and the two Snapshots hold different objects.
C35_FingerprintsStayInSnapshot ==
    [][ /\ \A k \in DOMAIN resource :
              resource'[k].hash = resource[k].hash /\ resource'[k].mtime = resource[k].mtime
        /\ (last'.op = "update_table" /\ last'.on = "table") => table_prev' = table_prev
        /\ (last'.op = "update_table" /\ last'.on = "table_prev") => table' = table
        /\ Ids(resource') \cap (Ids(table') \cup Ids(table_prev')) = {}
        /\ Ids(table') \cap Ids(table_prev') = {} ]_vars

\* The first Snapshot's entities carry fingerprints after an update_table,
\* those of the second Snapshot, taken after the first was updated, and the
\* rules of the registry carry none.
C35_Witness ==
    /\ last.op = "update_table" /\ last.on = "table"
    /\ \A z \in DOMAIN table : table[z].hash # None /\ table[z].mtime # None
    /\ \A z \in DOMAIN table_prev : table_prev[z].hash = None /\ table_prev[z].id > 6
    /\ \A k \in DOMAIN resource : resource[k].hash = None /\ resource[k].mtime = None

\* --------------------------------------- directory rules with a group
\* The group and ignore arguments a caller gives.
GroupArgs == {None, Some("G")}

TreeIgnoreArgs == {None, Some({"a"})}

\* Resource._add(key, path, glob = pattern, group = group, ignore = ignore).
_add_with_group(res, key, path, pattern, group, ignore) ==
    IF key \in DOMAIN res
    THEN Added(res, "KeyError")
    ELSE IF ~is_file(path) /\ ~is_dir(path)
         THEN Added(res, "FileNotFoundError")
         ELSE Added([ k \in DOMAIN res \cup {key} |->
                        IF k # key
                        THEN res[k]
                        ELSE IF is_file(path)
                        THEN ManagedFile(path, Some(key), None, group, None, None)
                        ELSE ManagedDirectory(path, pattern, Some(key), group, ignore) ], "")

\* The files of the tree are there from the start, with the files of Paths.
InitTree ==
    /\ calls = 0
    /\ removed = {}
    /\ content = [p \in Paths \cup TreeFiles |-> "v1"]
    /\ st_mtime = [p \in Paths \cup TreeFiles |-> 1]
    /\ clock = 1
    /\ resource = << >>
    /\ table = snapshot(resource)
    /\ table_prev = << >>
    /\ historyExists = FALSE
    /\ history = {}
    /\ recentExists = FALSE
    /\ recent = {}
    /\ cache = [tp \in Tags \X (Paths \cup TreeFiles) |-> None]
    /\ incremented = {}
    /\ runs = 0
    /\ sinceRun = [p \in Paths |-> "clean"]
    /\ last = Idle

\* Resource.add(path, glob, key = key, group = group, ignore = ignore) for
\* a single path.
AddRuleWithGroup(path, pattern, key, group, ignore) ==
    LET r == _add_with_group(resource, IF key # None THEN key[1] ELSE path, path,
                             pattern, group, ignore)
    IN  /\ Cardinality(DOMAIN resource) < MaxRules
        /\ resource' = r.table
        /\ last' = [op |-> "add", raised |-> r.raised, before |-> resource,
                    path |-> path, ignore |-> ignore]
        /\ UNCHANGED registryOnly

NextTree ==
    \/ \E path \in {"a", "d", "d/a"}, pattern \in {"**/*", "*"}, key \in {None, Some("k1")},
          group \in GroupArgs, ignore \in TreeIgnoreArgs :
            AddRuleWithGroup(path, pattern, key, group, ignore)
    \/ Files
    \/ NewSnapshot
    \/ \E tag \in NextTags : EnforceCache(tag)

SpecTree == InitTree /\ [][NextTree]_vars

\* C36: every ManagedFile that comes from a directory rule carries the key
\* of the rule, the directory of the rule as prefix and the group of the
\* rule, and the history rows of the files of a directory registered with
\* a group G record group = G.
C36_DirectoryFilesCarryGroup ==
    /\ \A s \in DOMAIN table :
          table[s].prefix # None =>
              LET rule == resource[table[s].key[1]]
              IN  /\ table[s].key = rule.key
                  /\ table[s].prefix = Some(rule.path)
                  /\ table[s].group = rule.group
    /\ \A r \in history :
          r.prefix # "" => r.group = OrEmpty(resource[r.key].group)

\* The path segments of p.
Segments(pp) == { pp[j] : j \in 1..Len(pp) }

\* The segments of the path of p below the directory dir.
SegmentsBelow(dir, p) ==
    { parts(p)[j] : j \in (Len(parts(dir)) + 1)..Len(parts(p)) }

\* C38: files() of a directory rule returns the regular files its glob
\* matches whose path below the directory of the rule has no segment in the
\* ignore set, and no other; an ignored name among the segments of the
\* directory of the rule itself excludes nothing.
C38_IgnoreAppliesBelowTheDirectory ==
    last.op = "files" =>
        \A k \in DOMAIN resource :
            IsManagedDirectory(resource[k]) =>
                LET rule == resource[k]
                    listed == { last.files[i].path :
                                  i \in { j \in 1..Len(last.files) :
                                            /\ last.files[j].key = Some(k)
                                            /\ last.files[j].prefix # None } }
                IN  listed = { p \in glob(rule.path, rule.glob) \cap TreeFiles :
                                 SegmentsBelow(rule.path, p) \cap rule.ignore = {} }

\* ------------------------------------- the hash table and back to a table
\* snapshot_table_from_dataframe(snap.as_hash_table()): the table built of
\* the rows of the Snapshot, kept in table_prev.
TableFromDataframe ==
    /\ table_prev' = snapshot_table_from_dataframe(as_hash_table(table, None, None, FALSE))
    /\ last' = [op |-> "snapshot_table_from_dataframe"]
    /\ UNCHANGED <<calls, removed, content, st_mtime, clock, resource, table, historyExists,
                   history, recentExists, recent, cache, incremented, runs, sinceRun>>

NextRound ==
    \/ \E path \in {"a", "d"}, key \in {None, Some("k1")}, group \in GroupArgs :
            AddRuleWithGroup(path, "*", key, group, None)
    \/ NewSnapshot
    \/ \E update_hash, update_mtime \in BOOLEAN : UpdateTable(update_hash, update_mtime)
    \/ TableFromDataframe

SpecRound == InitTree /\ [][NextRound]_vars

\* Every entity of the table t has its hash and its mtime set.
FingerprintsSet(t) == \A z \in DOMAIN t : t[z].hash # None /\ t[z].mtime # None

\* C37: for a Snapshot whose entities have hash and mtime set, the table
\* snapshot_table_from_dataframe builds of as_hash_table() has the same
\* SnapshotTableKeys, and its entities carry the key, prefix, group, hash
\* and mtime of the originals.
C37_HashTableRoundTrips ==
    (last.op = "snapshot_table_from_dataframe" /\ FingerprintsSet(table)) =>
        /\ DOMAIN table_prev = DOMAIN table
        /\ \A z \in DOMAIN table :
              /\ table_prev[z].key = table[z].key
              /\ table_prev[z].prefix = table[z].prefix
              /\ table_prev[z].group = table[z].group
              /\ table_prev[z].hash = table[z].hash
              /\ table_prev[z].mtime = table[z].mtime

\* ------------------------------------------- cache runs asked of a Resource
\* The parameters of Snapshot.cache_increments after self; the method takes
\* no **kwargs.
Snapshot_cache_increments_parameters ==
    {"db_path", "cache_root_dir", "tag", "timestamp", "mode", "aware", "update"}

\* The keyword arguments Resource.cache_increments passes to it.
Resource_cache_increments_passes ==
    {"db_path", "cache_root_dir", "tag", "update", "verbose", "return_index"}

\* The binding of a call by keywords: TypeError for a keyword that is no
\* parameter of the function.
bind(parameters, passed) == IF passed \subseteq parameters THEN "" ELSE "TypeError"

\* What a call on the Resource leaves in last.
Asked(op, raised) ==
    [op |-> op, ok |-> raised = "", raised |-> raised, runsBefore |-> runs,
     histBefore |-> history]

\* Resource.cache_increments(db_path, cache_root_dir) or, with op =
\* "Resource.freeze", the freeze that calls it: tag = get_unique_name(),
\* snap = self.snapshot(), a new Snapshot that is dropped on return, then
\* the call of snap.cache_increments by keywords.  If the keywords bind,
\* the run is that of a new Snapshot with mode = "recent", aware = "both"
\* and update = True.
ResourceCacheIncrements(op, tag) ==
    IF bind(Snapshot_cache_increments_parameters, Resource_cache_increments_passes) # ""
    THEN /\ last' = Asked(op, bind(Snapshot_cache_increments_parameters,
                                    Resource_cache_increments_passes))
         /\ UNCHANGED <<calls, removed, content, st_mtime, clock, resource, table, table_prev,
                        historyExists, history, recentExists, recent, cache, incremented,
                        runs, sinceRun>>
    ELSE /\ table = snapshot(resource)
         /\ CacheIncrements(tag, "recent", "both", TRUE)

NextResource ==
    \/ \E p \in Paths, c \in Contents : WriteFile(p, c)
    \/ NewSnapshot
    \/ ReadHistoryHashTable
    \/ \E tag \in NextTags : EnforceCache(tag)
    \/ \E tag \in NewTags :
          ResourceCacheIncrements("Resource.cache_increments", tag)
    \/ \E tag \in NewTags : ResourceCacheIncrements("Resource.freeze", tag)

SpecResource == Init /\ [][NextResource]_vars

\* C39: Resource.cache_increments and Resource.freeze on a Resource whose
\* managed files exist complete one incremental cache run under a new tag
\* and return its rows with the changed mask; they do not end in an error.
C39_ResourceRunCompletes ==
    last.op \in {"Resource.cache_increments", "Resource.freeze"} =>
        /\ last.ok
        /\ last.raised = ""
        /\ runs = last.runsBefore + 1

====
